---- MODULE Spec2Model ----
(***************************************************************************)
(* A model of the yoga-mentor pose classifier, its two views and the voice *)
(* announcement hook.                                                      *)
(*                                                                         *)
(*   SpecSpeech    the useSpeechFeedback hook (src/src/hooks/              *)
(*                 useSpeechFeedback.ts) under speakPose calls, the clock  *)
(*                 and reset().                                            *)
(*   SpecPoses     the same with pose labels alone, SpecWarnings with the  *)
(*                 two warning labels and one pose.                        *)
(*   SpecText      the same with labels and feedback texts of several      *)
(*                 shapes.                                                 *)
(*   SpecTwin      the hook next to a second one created afresh at each    *)
(*                 reset() and given the same calls.                       *)
(*   SpecQueue     the same under calls, toggle and reset() alone.         *)
(*   SpecSession   the same hook with stop, toggle and the notifications   *)
(*                 of the speech engine, on fewer labels.                  *)
(*   SpecClassify  classifyPose of src/unnamed/part_001, both variants,    *)
(*                 applied to skeletons and to changes of them.            *)
(*   SpecView      CameraView.tsx and ImageUpload.tsx with the detector    *)
(*                 handle of part_001.                                     *)
(*   SpecRepeat    classifyPose called twice on one skeleton while the     *)
(*                 views run.                                              *)
(*                                                                         *)
(* Times are milliseconds as read from Date.now().  Pose labels and        *)
(* feedback texts are the strings of the source.  Coordinates and          *)
(* visibility are hundredths, angles are microdegrees.                     *)
(***************************************************************************)
EXTENDS Integers, Sequences, FiniteSets, TLC

VARIABLES
    \* ---- useSpeechFeedback (React state and refs) ----
    isEnabled,              \* useState(true)
    isSpeaking,             \* useState(false)
    lastAnnouncedPose,      \* lastAnnouncedPoseRef.current
    lastPoseChangeTime,     \* lastPoseChangeTimeRef.current
    lastFeedback,           \* lastFeedbackRef.current
    announcementCooldown,   \* announcementCooldownRef.current
    recentPoses,            \* recentPosesRef.current
    currentStablePose,      \* currentStablePoseRef.current
    \* ---- platform ----
    speechSupported,        \* 'speechSynthesis' in window
    clock,                  \* the reading of Date.now()
    synth,                  \* window.speechSynthesis: "idle", "pending" or "speaking"
    synthText,              \* the text of the utterance the engine holds ("" when idle)
    synthHeld,              \* the number of utterances in the engine's queue, the one
                            \* being spoken included
    staleEvents,            \* end/error notifications of cancelled utterances, not yet delivered
    \* ---- history of the run (observations only, never read by the program) ----
    lastPath,               \* the operation that ran last; for speakPose the branch it returned from
    utterTime,              \* clock reading of the last utterance since construction/reset (-1: none)
    utterGap,               \* set by a call that issues an utterance: the milliseconds since the
                            \* utterance before it (-1: there was none; forgotten when the clock
                            \* moves on or another operation runs)
    streakLabel,            \* the run so far is speakPose calls alone, all with this label
                            \* ("": no call yet, "*": it is not, or is longer than CountCap)
    streakCalls,            \* the number of those calls
    streakUtter,            \* the number of utterances they issued
    sinceWarning,           \* non-warning calls that got past line 89 since the last warning
                            \* call that did (capped at CountCap; -1: no such warning call yet)
    prevLabel,              \* the label of the previous speakPose call ("" none yet)
    labelChanges,           \* how often the label differed from the previous call's
    lastSaid,               \* the text the last speakPose call handed to announceText
                            \* (NULL: none, or the last step was not a call)
    twin,                   \* the refs of a second controller, created afresh at the last
                            \* reset() (at construction before the first), that has been
                            \* given every speakPose call since, at the same clock readings
    twinSaid                \* the text its last call handed to announceText

hookVars == <<isEnabled, isSpeaking, lastAnnouncedPose, lastPoseChangeTime, lastFeedback,
              announcementCooldown, recentPoses, currentStablePose>>
refVars == <<lastAnnouncedPose, lastPoseChangeTime, lastFeedback,
             announcementCooldown, recentPoses, currentStablePose>>
platformVars == <<speechSupported, clock, synth, synthText, synthHeld, staleEvents>>
historyVars == <<lastPath, utterTime, utterGap, streakLabel, streakCalls, streakUtter,
                 sinceWarning, prevLabel, labelChanges, lastSaid, twin, twinSaid>>
speechVars == <<hookVars, platformVars, historyVars>>

VARIABLES
    detection,              \* the detector result handed to classifyPose
    classification,         \* what classifyPose returned for it (part_001 lines 163-381)
    legacyClassification,   \* what the legacy classifyPose returned (lines 542-634)
    edits,                  \* changes made to the detector result so far
    reclassification        \* what a second classifyPose call returned for it

classifyVars == <<detection, classification, legacyClassification, edits, reclassification>>

VARIABLES
    poseLandmarker,         \* part_001 line 26: "null", or the running mode it was created with
    isInitialized,          \* part_001 line 27
    stream,                 \* CameraView: a media stream is held
    isActive,               \* CameraView
    currentPose,            \* CameraView: the classification on display
    frame,                  \* CameraView's detection loop: "none", "metadata" (waiting for the
                            \* video to load), "scheduled" (an animation frame is requested) or
                            \* "detecting" (detectFrame waits for detectPose)
    image,                  \* ImageUpload: an image is loaded
    result,                 \* ImageUpload: the classification on display
    visibilityWarning,      \* ImageUpload
    toast,                  \* the title of the last toast
    cameraFound,            \* what detectPose gave the last frame since the camera started:
                            \* "none", "null" or "landmarks"
    imageFound              \* the same for the last analysis of the loaded image

viewVars == <<poseLandmarker, isInitialized, stream, isActive, currentPose, frame, image, result,
              visibilityWarning, toast, cameraFound, imageFound>>
vars == <<speechVars, classifyVars, viewVars>>
\* what the operations of each part leave alone
exceptSpeech == <<classifyVars, viewVars>>
exceptClassify == <<speechVars, viewVars>>
exceptView == <<speechVars, classifyVars>>

----------------------------------------------------------------------------
(* Bounds of the model *)

\* The reading of Date.now().  The code reads a timestamp only in a difference
\* now - ref, so the origin of the time axis is free: the model moves it along
\* with the clock, Date.now() always reads StartClock, and when d milliseconds
\* pass every stored timestamp moves d into the past instead (Past), a timestamp
\* before the origin staying at 0.  The real reading is about 1.7e12 with the refs
\* starting at 0; every difference above 1.5 * SAME_POSE_COOLDOWN behaves alike.
StartClock == 16000
\* How often the label passed to speakPose may differ from the previous call's.
MaxLabelChanges == 2
\* changes made to one detector result before it is classified
MaxEdits == 1
\* The history counters stop counting here.
CountCap == 9

\* Milliseconds that may pass in one step of the clock.  Calls with no step of the
\* clock between them read the same Date.now(): they come in quick succession.
Ticks == {3500, 5000, 10000}
\* The two cooldowns alone, for the specifications with the larger sets of labels.
CooldownTicks == {3500, 10000}

----------------------------------------------------------------------------
(* Configuration: useSpeechFeedback.ts lines 24-28 *)

SAME_POSE_COOLDOWN == 10000
ANNOUNCEMENT_COOLDOWN == 3500
REQUIRED_STABLE_DETECTIONS == 8
POSE_HISTORY_SIZE == 12
\* STABILITY_THRESHOLD = 0.65, in percent
STABILITY_THRESHOLD == 65

----------------------------------------------------------------------------
(* Labels and feedback texts passed to speakPose *)

SHOW_FULL_BODY == "Show Full Body"
MOVE_BACK == "Move Back"
TREE == "Tree Pose (Vrksasana)"
MOUNTAIN == "Mountain Pose (Tadasana)"

WarningLabels == {SHOW_FULL_BODY, MOVE_BACK}
PoseLabels == {TREE, MOUNTAIN}
Labels == PoseLabels \cup WarningLabels

Feedbacks == {"Find your balance. Breathe.", "Stand taller with weight evenly distributed"}

\* getMostStablePose's null
NULL == "<null>"

----------------------------------------------------------------------------
(* Text helpers: String.prototype.trim, match(/^([^(]+)/), split(/[.!]/) *)

CharAt(s, i) == SubSeq(s, i, i)

RECURSIVE TrimStart(_)
TrimStart(s) ==
    IF Len(s) > 0 /\ CharAt(s, 1) = " " THEN TrimStart(SubSeq(s, 2, Len(s))) ELSE s

RECURSIVE TrimEnd(_)
TrimEnd(s) ==
    IF Len(s) > 0 /\ CharAt(s, Len(s)) = " " THEN TrimEnd(SubSeq(s, 1, Len(s) - 1)) ELSE s

Trim(s) == TrimEnd(TrimStart(s))

\* The longest prefix of s holding none of the characters in stops.
RECURSIVE PrefixBefore(_, _, _)
PrefixBefore(s, stops, i) ==
    IF i > Len(s) \/ CharAt(s, i) \in stops THEN SubSeq(s, 1, i - 1)
    ELSE PrefixBefore(s, stops, i + 1)

\* getSpokenPoseName: the text before the first "(", trimmed; the name itself
\* when the pattern ^([^(]+) does not match (the name is empty or starts with "(").
getSpokenPoseName(poseName) ==
    LET m == PrefixBefore(poseName, {"("}, 1)
    IN  IF Len(m) > 0 THEN Trim(m) ELSE poseName

\* Variant: the feedback is cut at the first "." only.
getConciseFeedback_DotOnly(feedback) == Trim(PrefixBefore(feedback, {"."}, 1))

\* getConciseFeedback: split(/[.!]/)[0].trim(); split always yields an entry.
getConciseFeedback(feedback) == Trim(PrefixBefore(feedback, {".", "!"}, 1))

----------------------------------------------------------------------------
(* Stability of the history queue *)

IsWarning(poseName) == poseName = SHOW_FULL_BODY \/ poseName = MOVE_BACK

\* history.filter(p => p === poseName).length
MatchCount(history, poseName) == Cardinality({i \in 1..Len(history) : history[i] = poseName})

\* matchCount / history.length >= STABILITY_THRESHOLD, in exact arithmetic
RatioStable(count, len) == count * 100 >= STABILITY_THRESHOLD * len

\* Variant: a full queue keeps its entries and drops the new label.
PushPose_KeepOldest(history, poseName) ==
    IF Len(history) >= POSE_HISTORY_SIZE THEN history ELSE Append(history, poseName)

\* push, then shift when the queue is longer than POSE_HISTORY_SIZE
PushPose(history, poseName) ==
    LET pushed == Append(history, poseName)
    IN  IF Len(pushed) > POSE_HISTORY_SIZE THEN Tail(pushed) ELSE pushed

checkPoseStability(history, poseName) ==
    IF Len(history) < REQUIRED_STABLE_DETECTIONS THEN FALSE
    ELSE RatioStable(MatchCount(history, poseName), Len(history))

\* The loop over Object.entries(counts): keys come in insertion order, which is the
\* order of first occurrence in the history; a later key replaces mostCommon only
\* with a strictly larger count.
RECURSIVE MostCommonFrom(_, _, _, _)
MostCommonFrom(history, i, mostCommon, maxCount) ==
    IF i > Len(history) THEN <<mostCommon, maxCount>>
    ELSE LET pose == history[i]
             first == \A j \in 1..(i - 1) : history[j] # pose
             count == MatchCount(history, pose)
         IN  IF first /\ count > maxCount
             THEN MostCommonFrom(history, i + 1, pose, count)
             ELSE MostCommonFrom(history, i + 1, mostCommon, maxCount)

\* Variant: the minimum queue length compared with <= instead of <.
getMostStablePose_OffByOne(history) ==
    IF Len(history) <= REQUIRED_STABLE_DETECTIONS THEN NULL
    ELSE LET best == MostCommonFrom(history, 1, "", 0)
         IN  IF RatioStable(best[2], Len(history)) THEN best[1] ELSE NULL

\* lines 60-86
getMostStablePose(history) ==
    IF Len(history) < REQUIRED_STABLE_DETECTIONS THEN NULL
    ELSE LET best == MostCommonFrom(history, 1, "", 0)
         IN  IF RatioStable(best[2], Len(history)) THEN best[1] ELSE NULL

----------------------------------------------------------------------------
(* speakPose: useSpeechFeedback.ts lines 88-170 *)

\* The refs as speakPose finds them.
Refs ==
    [recent |-> recentPoses, stable |-> currentStablePose,
     lastAnnounced |-> lastAnnouncedPose, lastFeedback |-> lastFeedback,
     lastChange |-> lastPoseChangeTime, cooldown |-> announcementCooldown]

\* Variant: the repeat window is the same-pose cooldown itself, without the 1.5.
WarningRepeatBlocked_PlainCooldown(r, poseName, now) ==
    /\ poseName = r.lastAnnounced
    /\ now - r.lastChange < SAME_POSE_COOLDOWN

\* The refs of a controller just constructed, lines 14-21.
FreshRefs ==
    [recent |-> <<>>, stable |-> "", lastAnnounced |-> "", lastFeedback |-> "",
     lastChange |-> 0, cooldown |-> 0]

\* line 102-103: the same warning within 1.5 x the same-pose cooldown
WarningRepeatBlocked(r, poseName, now) ==
    /\ poseName = r.lastAnnounced
    /\ 2 * (now - r.lastChange) < SAME_POSE_COOLDOWN * 3

\* Variant: the cooldown measured from the last pose change instead of the last
\* utterance.
GlobalCooldownBlocked_FromPoseChange(r, now) == now - r.lastChange < ANNOUNCEMENT_COOLDOWN

\* lines 108 and 148: the global cooldown has not elapsed
GlobalCooldownBlocked(r, now) == now - r.cooldown < ANNOUNCEMENT_COOLDOWN

\* lines 136-138: the stable pose is unchanged and an updated feedback is due
FeedbackUpdateDue(r, feedback, now) ==
    /\ now - r.lastChange > SAME_POSE_COOLDOWN
    /\ feedback # r.lastFeedback
    /\ now - r.cooldown > ANNOUNCEMENT_COOLDOWN

\* line 160: `${spokenName}. ${conciseFeedback}`
Announcement(stablePose, feedback) ==
    getSpokenPoseName(stablePose) \o ". " \o getConciseFeedback(feedback)

\* What one call does: the refs it leaves, the text it hands to announceText
\* (NULL: none) and the branch it returns from.
Outcome(refs, say, path) == [refs |-> refs, say |-> say, path |-> path]

\* Variant: a warning empties the queue and leaves the stable pose as it was.
WarningPath_KeepsStable(r, poseName, feedback, now) ==
    LET cleared == [r EXCEPT !.recent = <<>>]
    IN  IF WarningRepeatBlocked(r, poseName, now) THEN Outcome(cleared, NULL, "warningRepeat")
        ELSE IF GlobalCooldownBlocked(r, now) THEN Outcome(cleared, NULL, "warningCooldown")
        ELSE Outcome([cleared EXCEPT !.lastAnnounced = poseName,
                                     !.lastChange = now,
                                     !.cooldown = now],
                     feedback, "warningSpoken")

\* Variant: the queue and the stable pose cleared only when the warning is spoken.
WarningPath_ClearWhenSpoken(r, poseName, feedback, now) ==
    LET cleared == [r EXCEPT !.recent = <<>>, !.stable = ""]
    IN  IF WarningRepeatBlocked(r, poseName, now) THEN Outcome(r, NULL, "warningRepeat")
        ELSE IF GlobalCooldownBlocked(r, now) THEN Outcome(r, NULL, "warningCooldown")
        ELSE Outcome([cleared EXCEPT !.lastAnnounced = poseName,
                                     !.lastChange = now,
                                     !.cooldown = now],
                     feedback, "warningSpoken")

\* lines 96-117
WarningPath(r, poseName, feedback, now) ==
    LET cleared == [r EXCEPT !.recent = <<>>, !.stable = ""]
    IN  IF WarningRepeatBlocked(r, poseName, now) THEN Outcome(cleared, NULL, "warningRepeat")
        ELSE IF GlobalCooldownBlocked(r, now) THEN Outcome(cleared, NULL, "warningCooldown")
        ELSE Outcome([cleared EXCEPT !.lastAnnounced = poseName,
                                     !.lastChange = now,
                                     !.cooldown = now],
                     feedback, "warningSpoken")

\* Variant: the stable pose is taken over before the cooldown is looked at.
NormalPath_StableBeforeCooldown(r, poseName, feedback, now) ==
    LET pushed == [r EXCEPT !.recent = PushPose(r.recent, poseName)]
        stablePose == getMostStablePose(pushed.recent)
    IN  IF stablePose = NULL \/ stablePose = "" THEN Outcome(pushed, NULL, "accumulating")
        ELSE IF stablePose = r.stable
        THEN IF FeedbackUpdateDue(r, feedback, now)
             THEN Outcome([pushed EXCEPT !.lastFeedback = feedback, !.cooldown = now],
                          getConciseFeedback(feedback), "sameUpdate")
             ELSE Outcome(pushed, NULL, "sameQuiet")
        ELSE IF GlobalCooldownBlocked(r, now)
        THEN Outcome([pushed EXCEPT !.stable = stablePose], NULL, "newCooldown")
        ELSE IF ~checkPoseStability(pushed.recent, stablePose)
        THEN Outcome(pushed, NULL, "newUnstable")
        ELSE Outcome([pushed EXCEPT !.stable = stablePose,
                                    !.lastAnnounced = stablePose,
                                    !.lastFeedback = feedback,
                                    !.lastChange = now,
                                    !.cooldown = now],
                     Announcement(stablePose, feedback), "newSpoken")

\* lines 119-168
NormalPath(r, poseName, feedback, now) ==
    LET pushed == [r EXCEPT !.recent = PushPose(r.recent, poseName)]
        stablePose == getMostStablePose(pushed.recent)
    IN  IF stablePose = NULL \/ stablePose = "" THEN Outcome(pushed, NULL, "accumulating")
        ELSE IF stablePose = r.stable
        THEN IF FeedbackUpdateDue(r, feedback, now)
             THEN Outcome([pushed EXCEPT !.lastFeedback = feedback, !.cooldown = now],
                          getConciseFeedback(feedback), "sameUpdate")
             ELSE Outcome(pushed, NULL, "sameQuiet")
        ELSE IF GlobalCooldownBlocked(r, now) THEN Outcome(pushed, NULL, "newCooldown")
        ELSE IF ~checkPoseStability(pushed.recent, stablePose)
        THEN Outcome(pushed, NULL, "newUnstable")
        ELSE Outcome([pushed EXCEPT !.stable = stablePose,
                                    !.lastAnnounced = stablePose,
                                    !.lastFeedback = feedback,
                                    !.lastChange = now,
                                    !.cooldown = now],
                     Announcement(stablePose, feedback), "newSpoken")

\* Variant: the history is updated before the enabled check returns.
speakPoseOutcome_HistoryBeforeCheck(r, enabled, poseName, feedback, now) ==
    IF ~enabled \/ ~speechSupported
    THEN Outcome(IF IsWarning(poseName) THEN [r EXCEPT !.recent = <<>>, !.stable = ""]
                 ELSE [r EXCEPT !.recent = PushPose(r.recent, poseName)],
                 NULL, "disabled")
    ELSE IF IsWarning(poseName) THEN WarningPath(r, poseName, feedback, now)
    ELSE NormalPath(r, poseName, feedback, now)

\* lines 88-170
speakPoseOutcome(r, enabled, poseName, feedback, now) ==
    IF ~enabled \/ ~speechSupported THEN Outcome(r, NULL, "disabled")
    ELSE IF IsWarning(poseName) THEN WarningPath(r, poseName, feedback, now)
    ELSE NormalPath(r, poseName, feedback, now)

\* window.speechSynthesis.cancel(): the queue is emptied; an utterance that was
\* pending or being spoken is told so later, by an error or end notification.
CancelSynth ==
    /\ synth' = "idle"
    /\ synthText' = ""
    /\ synthHeld' = 0
    /\ staleEvents' = (staleEvents \/ synth # "idle")

\* Variant: the new utterance is queued behind the ones the engine holds, without
\* the cancel() of line 175.
announceText_NoCancel(text) ==
    IF ~speechSupported THEN UNCHANGED <<synth, synthText, synthHeld, staleEvents>>
    ELSE /\ synth' = IF synth = "idle" THEN "pending" ELSE synth
         /\ synthText' = IF synth = "idle" THEN text ELSE synthText
         /\ synthHeld' = synthHeld + 1
         /\ UNCHANGED staleEvents

\* announceText, lines 172-188: cancel() empties the engine's queue, speak() puts
\* the new utterance in it.
announceText(text) ==
    IF ~speechSupported THEN UNCHANGED <<synth, synthText, synthHeld, staleEvents>>
    ELSE /\ synth' = "pending"
         /\ synthText' = text
         /\ synthHeld' = 0 + 1
         /\ staleEvents' = (staleEvents \/ synth # "idle")

Min(a, b) == IF a < b THEN a ELSE b

\* One call of speakPose, the twin apart.
SpeakPoseCall(poseName, feedback) ==
    \E out \in {speakPoseOutcome(Refs, isEnabled, poseName, feedback, clock)} :
    LET now == clock
        said == out.say # NULL
        changed == prevLabel # "" /\ prevLabel # poseName
        live == out.path # "disabled"
    IN  /\ labelChanges + (IF changed THEN 1 ELSE 0) <= MaxLabelChanges
        /\ recentPoses' = out.refs.recent
        /\ currentStablePose' = out.refs.stable
        /\ lastAnnouncedPose' = out.refs.lastAnnounced
        /\ lastFeedback' = out.refs.lastFeedback
        /\ lastPoseChangeTime' = out.refs.lastChange
        /\ announcementCooldown' = out.refs.cooldown
        /\ IF said THEN announceText(out.say) ELSE UNCHANGED <<synth, synthText, synthHeld, staleEvents>>
        /\ UNCHANGED <<isEnabled, isSpeaking, speechSupported, clock>>
        \* observations
        /\ lastPath' = out.path
        /\ lastSaid' = out.say
        /\ utterTime' = IF said THEN now ELSE utterTime
        /\ utterGap' = IF said /\ utterTime # -1 THEN now - utterTime ELSE -1
        /\ prevLabel' = poseName
        /\ labelChanges' = labelChanges + (IF changed THEN 1 ELSE 0)
        /\ IF streakLabel \in {"", poseName} /\ streakCalls < CountCap
           THEN /\ streakLabel' = poseName
                /\ streakCalls' = streakCalls + 1
                /\ streakUtter' = streakUtter + (IF said THEN 1 ELSE 0)
           ELSE /\ streakLabel' = "*"
                /\ streakCalls' = 0
                /\ streakUtter' = 0
        /\ sinceWarning' = IF ~live THEN sinceWarning
                           ELSE IF poseName \in WarningLabels THEN 0
                           ELSE IF sinceWarning = -1 THEN -1
                           ELSE Min(sinceWarning + 1, CountCap)
        /\ UNCHANGED exceptSpeech

\* speakPose(poseName, feedback) on the controller alone
SpeakPose(poseName, feedback) ==
    /\ SpeakPoseCall(poseName, feedback)
    /\ UNCHANGED <<twin, twinSaid>>

\* speakPose(poseName, feedback) on the controller and on its twin
SpeakPoseBoth(poseName, feedback) ==
    /\ SpeakPoseCall(poseName, feedback)
    /\ LET twinOut == speakPoseOutcome(twin, isEnabled, poseName, feedback, clock)
       IN  twin' = twinOut.refs /\ twinSaid' = twinOut.say

\* A timestamp t after the origin of the time axis moved d milliseconds on.
Past(t, d) == IF t - d < 0 THEN 0 ELSE t - d

\* d milliseconds pass: the next Date.now() (line 91) is d later.
Tick(d) ==
    /\ lastPoseChangeTime' = Past(lastPoseChangeTime, d)
    /\ announcementCooldown' = Past(announcementCooldown, d)
    /\ utterTime' = IF utterTime = -1 THEN -1 ELSE Past(utterTime, d)
    /\ UNCHANGED <<isEnabled, isSpeaking, lastAnnouncedPose, lastFeedback, recentPoses,
                   currentStablePose, platformVars>>
    /\ lastPath' = "tick"
    /\ utterGap' = -1
    /\ lastSaid' = NULL
    /\ twin' = [twin EXCEPT !.lastChange = Past(@, d), !.cooldown = Past(@, d)]
    /\ twinSaid' = NULL
    /\ UNCHANGED <<streakLabel, streakCalls, streakUtter, sinceWarning, prevLabel, labelChanges>>
    /\ UNCHANGED exceptSpeech

\* An operation other than speakPose ran: the observations of a run that
\* consists of speakPose calls alone end here.
Observe(op) ==
    /\ lastPath' = op
    /\ lastSaid' = NULL
    /\ twinSaid' = NULL
    /\ streakLabel' = "*"
    /\ streakCalls' = 0
    /\ streakUtter' = 0
    /\ UNCHANGED <<sinceWarning, prevLabel, labelChanges>>

\* stop, lines 190-195
StopBody ==
    IF speechSupported
    THEN CancelSynth /\ isSpeaking' = FALSE
    ELSE UNCHANGED <<synth, synthText, synthHeld, staleEvents, isSpeaking>>

Stop ==
    /\ StopBody
    /\ UNCHANGED <<isEnabled, refVars, speechSupported, clock, utterTime>>
    /\ utterGap' = -1
    /\ UNCHANGED twin
    /\ Observe("stop")
    /\ UNCHANGED exceptSpeech

\* toggle, lines 197-204: stop() when speech was enabled, then flip the flag
Toggle ==
    /\ IF isEnabled THEN StopBody ELSE UNCHANGED <<synth, synthText, synthHeld, staleEvents, isSpeaking>>
    /\ isEnabled' = ~isEnabled
    /\ UNCHANGED <<refVars, speechSupported, clock, utterTime>>
    /\ utterGap' = -1
    /\ UNCHANGED twin
    /\ Observe("toggle")
    /\ UNCHANGED exceptSpeech

\* Variant: the cooldown timestamp is left as it was.
Reset_KeepsCooldown ==
    /\ lastAnnouncedPose' = ""
    /\ lastFeedback' = ""
    /\ lastPoseChangeTime' = 0
    /\ UNCHANGED announcementCooldown
    /\ recentPoses' = <<>>
    /\ currentStablePose' = ""
    /\ UNCHANGED <<isEnabled, isSpeaking, platformVars>>
    /\ utterTime' = -1
    /\ utterGap' = -1
    /\ twin' = FreshRefs
    /\ Observe("reset")
    /\ UNCHANGED exceptSpeech

\* reset, lines 206-213
Reset ==
    /\ lastAnnouncedPose' = ""
    /\ lastFeedback' = ""
    /\ lastPoseChangeTime' = 0
    /\ announcementCooldown' = 0
    /\ recentPoses' = <<>>
    /\ currentStablePose' = ""
    /\ UNCHANGED <<isEnabled, isSpeaking, platformVars>>
    /\ utterTime' = -1
    /\ utterGap' = -1
    /\ twin' = FreshRefs
    /\ Observe("reset")
    /\ UNCHANGED exceptSpeech

\* utterance.onstart, line 183: the engine begins to speak the pending utterance
OnStart ==
    /\ synth = "pending"
    /\ synth' = "speaking"
    /\ isSpeaking' = TRUE
    /\ UNCHANGED <<isEnabled, refVars, speechSupported, clock, synthText, synthHeld, staleEvents,
                   historyVars>>
    /\ UNCHANGED exceptSpeech

\* utterance.onend / onerror, lines 184-185, of the utterance being spoken
OnEnd ==
    /\ synth = "speaking"
    /\ synth' = "idle"
    /\ synthText' = ""
    /\ synthHeld' = synthHeld - 1
    /\ isSpeaking' = FALSE
    /\ UNCHANGED <<isEnabled, refVars, speechSupported, clock, staleEvents, historyVars>>
    /\ UNCHANGED exceptSpeech

\* utterance.onend / onerror, lines 184-185, of an utterance cancel() removed
OnStaleEnd ==
    /\ staleEvents
    /\ staleEvents' = FALSE
    /\ isSpeaking' = FALSE
    /\ UNCHANGED <<isEnabled, refVars, speechSupported, clock, synth, synthText, synthHeld,
                   historyVars>>
    /\ UNCHANGED exceptSpeech

InitSpeech ==
    /\ isEnabled = TRUE
    /\ isSpeaking = FALSE
    /\ lastAnnouncedPose = ""
    /\ lastPoseChangeTime = 0
    /\ lastFeedback = ""
    /\ announcementCooldown = 0
    /\ recentPoses = <<>>
    /\ currentStablePose = ""
    /\ speechSupported \in BOOLEAN
    /\ clock = StartClock
    /\ synth = "idle"
    /\ synthText = ""
    /\ synthHeld = 0
    /\ staleEvents = FALSE
    /\ lastPath = "init"
    /\ utterTime = -1
    /\ utterGap = -1
    /\ streakLabel = ""
    /\ streakCalls = 0
    /\ streakUtter = 0
    /\ sinceWarning = -1
    /\ prevLabel = ""
    /\ labelChanges = 0
    /\ lastSaid = NULL
    /\ twin = FreshRefs
    /\ twinSaid = NULL

\* The hook driven by its caller: speakPose at any clock reading, and reset.
NextSpeech ==
    \/ \E poseName \in Labels, feedback \in Feedbacks : SpeakPose(poseName, feedback)
    \/ \E d \in CooldownTicks : Tick(d)
    \/ Reset

\* The hook fed by a classifier that sees a full body throughout: pose labels alone.
NextPoses ==
    \/ \E poseName \in PoseLabels, feedback \in Feedbacks : SpeakPose(poseName, feedback)
    \/ \E d \in CooldownTicks : Tick(d)
    \/ Reset

\* The hook fed with the two visibility warnings and one pose.
NextWarnings ==
    \/ \E poseName \in WarningLabels \cup {TREE}, feedback \in Feedbacks :
           SpeakPose(poseName, feedback)
    \/ \E d \in Ticks : Tick(d)
    \/ Reset

\* A session with the speech engine: the engine's notifications arrive whenever
\* the engine chooses, and the user stops and mutes speech at any moment.
SessionLabels == {TREE, SHOW_FULL_BODY}
SessionFeedbacks == {"Find your balance. Breathe."}

NextSession ==
    \/ \E poseName \in SessionLabels, feedback \in SessionFeedbacks : SpeakPose(poseName, feedback)
    \/ \E d \in Ticks : Tick(d)
    \/ Stop
    \/ Toggle
    \/ Reset
    \/ OnStart
    \/ OnEnd
    \/ OnStaleEnd


\* The hook fed with two pose labels and a warning label while the user mutes
\* and unmutes speech; the queue does not depend on the clock.
QueueLabels == {TREE, MOUNTAIN, SHOW_FULL_BODY}

NextQueue ==
    \/ \E poseName \in QueueLabels, feedback \in SessionFeedbacks : SpeakPose(poseName, feedback)
    \/ Toggle
    \/ Reset

\* The hook fed with labels with and without a name in parentheses and with
\* feedback texts with a full stop, with an exclamation mark and with neither.
UNKNOWN_POSE == "Unknown Pose"
TextLabels == {TREE, UNKNOWN_POSE, MOVE_BACK}
TextFeedbacks == {"Find your balance. Breathe.",
                  "Wonderful balance! Focus on a fixed point to maintain stability",
                  "Stand taller with weight evenly distributed"}

NextText ==
    \/ \E poseName \in TextLabels, feedback \in TextFeedbacks : SpeakPose(poseName, feedback)
    \/ Reset

\* The hook and its twin, fed with the same calls, while the user mutes and
\* unmutes speech and the engine starts and ends utterances.
NextTwin ==
    \/ \E poseName \in SessionLabels, feedback \in Feedbacks :
           SpeakPoseBoth(poseName, feedback)
    \/ \E d \in CooldownTicks : Tick(d)
    \/ Reset
    \/ Toggle
    \/ OnStart
    \/ OnEnd

----------------------------------------------------------------------------
(* The pose classifier: unnamed/part_001 lines 1-381 *)
(* Coordinates are hundredths of the normalized frame (0.4 is 40), visibility  *)
(* is in hundredths, angles are microdegrees (160 degrees is 160000000).       *)

\* lines 15-24
PLANK == "Plank Pose (Phalakasana)"
DOWNWARD_DOG == "Downward Dog (Adho Mukha Svanasana)"
WARRIOR_II == "Warrior II (Virabhadrasana II)"
WARRIOR_I == "Warrior I (Virabhadrasana I)"
CHILD == "Child's Pose (Balasana)"
COBRA == "Cobra Pose (Bhujangasana)"
YOGA_POSES == {MOUNTAIN, WARRIOR_I, WARRIOR_II, TREE, DOWNWARD_DOG, PLANK, CHILD, COBRA}

\* The entries of the landmark list that the classifier reads (lines 175-187).
UsedIndices == {0, 11, 12, 13, 14, 15, 16, 23, 24, 25, 26, 27, 28}

\* landmark.visibility === undefined
NoVisibility == -1

\* An entry of the landmark list that is undefined (or a hole, or past the end).
Undefined == [defined |-> FALSE, x |-> 0, y |-> 0, visibility |-> NoVisibility]

Landmark(x, y, visibility) == [defined |-> TRUE, x |-> x, y |-> y, visibility |-> visibility]

\* landmarks[i]: undefined past the end of the list
LandmarkAt(landmarks, i) == IF i < landmarks.length THEN landmarks.at[i] ELSE Undefined

Abs(n) == IF n < 0 THEN -n ELSE n
Max(a, b) == IF a > b THEN a ELSE b
Deg(n) == n * 1000000

\* atan(2^-i) for i = 0..15, in microdegrees
AtanTable == <<45000000, 26565051, 14036243, 7125016, 3576334, 1789911, 895174, 447614,
               223811, 111906, 55953, 27976, 13988, 6994, 3497, 1749>>
\* fixed-point scale of the rotated vector
CordicScale == 65536

\* The angle of the vector (x, y), x > 0, by rotating it onto the x axis; exact
\* when the rotation lands on the axis (45 degrees), within 0.002 degrees otherwise.
RECURSIVE Cordic(_, _, _, _)
Cordic(x, y, z, i) ==
    IF i > Len(AtanTable) \/ y = 0 THEN z
    ELSE LET p == 2 ^ (i - 1)
         IN  IF y > 0
             THEN Cordic(x + (y \div p), y - (x \div p), z + AtanTable[i], i + 1)
             ELSE Cordic(x - (y \div p), y + (x \div p), z - AtanTable[i], i + 1)

\* Math.atan2(y, x) * 180 / Math.PI, in (-180, 180] degrees
Atan2(y, x) ==
    IF y = 0 THEN (IF x >= 0 THEN 0 ELSE Deg(180))
    ELSE IF x = 0 THEN (IF y > 0 THEN Deg(90) ELSE -Deg(90))
    ELSE LET a == Cordic(Abs(x) * CordicScale, Abs(y) * CordicScale, 0, 1)
         IN  IF x > 0 THEN (IF y > 0 THEN a ELSE -a)
             ELSE (IF y > 0 THEN Deg(180) - a ELSE a - Deg(180))

\* Reading .x or .y of an undefined entry throws a TypeError; an angle of
\* TypeError stands for that.
TypeError == -1

\* lines 126-133
calculateAngle(a, b, c) ==
    IF ~a.defined \/ ~b.defined \/ ~c.defined THEN TypeError
    ELSE LET degrees == Atan2(c.y - b.y, c.x - b.x) - Atan2(a.y - b.y, a.x - b.x)
             angle == Abs(degrees)
         IN  IF angle > Deg(180) THEN Deg(360) - angle ELSE angle

\* lines 136-138, squared: (b.x - a.x)^2 + (b.y - a.y)^2
calculateDistanceSquared(a, b) == (b.x - a.x) * (b.x - a.x) + (b.y - a.y) * (b.y - a.y)

\* lines 141-146, times 180 degrees: 1 is Deg(180), 0.7 is Deg(126)
calculateAlignment(point1, point2, point3) ==
    LET angle1 == Atan2(point2.y - point1.y, point2.x - point1.x)
        angle2 == Atan2(point3.y - point2.y, point3.x - point2.x)
        angleDiff == Abs(angle1 - angle2)
    IN  Deg(180) - (IF angleDiff < Deg(180) THEN angleDiff ELSE Deg(180))

\* lines 149-152
isBodyVertical(shoulder, hip, ankle) ==
    LET bodyAngle == Abs(Atan2(hip.y - shoulder.y, hip.x - shoulder.x))
    IN  bodyAngle > Deg(80) /\ bodyAngle < Deg(100)

\* Variant: criterion i carries the weight of the mirrored position.
RECURSIVE SumMet_Mirrored(_, _, _)
SumMet_Mirrored(criteriaMet, weights, i) ==
    IF i > Len(criteriaMet) THEN 0
    ELSE (IF criteriaMet[i] THEN weights[Len(weights) + 1 - i] ELSE 0)
             + SumMet_Mirrored(criteriaMet, weights, i + 1)

RECURSIVE SumMet(_, _, _)
SumMet(criteriaMet, weights, i) ==
    IF i > Len(criteriaMet) THEN 0
    ELSE (IF criteriaMet[i] THEN weights[i] ELSE 0) + SumMet(criteriaMet, weights, i + 1)

\* criteria.filter(c => c).length
MetCount(criteria) == Cardinality({i \in 1..Len(criteria) : criteria[i]})

\* Variant: every criterion weighs the same.
calculatePoseConfidence_Unweighted(criteriaMet, weights) ==
    [num |-> MetCount(criteriaMet), den |-> Len(weights)]

\* lines 155-160; weights are in tenths, the quotient is kept as a fraction
calculatePoseConfidence(criteriaMet, weights) ==
    [num |-> SumMet(criteriaMet, weights, 1),
     den |-> SumMet([i \in 1..Len(weights) |-> TRUE], weights, 1)]

\* A PoseClassification that classifyPose returns (lines 9-13); the confidence
\* is the fraction num / den.
Classification(pose, num, den, feedback) ==
    [thrown |-> FALSE, pose |-> pose, confidence |-> [num |-> num, den |-> den],
     feedback |-> feedback]

\* classifyPose does not return: it throws a TypeError.
Thrown == [thrown |-> TRUE, pose |-> "TypeError", confidence |-> [num |-> 0, den |-> 1],
           feedback |-> ""]

\* lines 175-187
Joints(landmarks) ==
    [nose |-> LandmarkAt(landmarks, 0),
     leftShoulder |-> LandmarkAt(landmarks, 11), rightShoulder |-> LandmarkAt(landmarks, 12),
     leftElbow |-> LandmarkAt(landmarks, 13), rightElbow |-> LandmarkAt(landmarks, 14),
     leftWrist |-> LandmarkAt(landmarks, 15), rightWrist |-> LandmarkAt(landmarks, 16),
     leftHip |-> LandmarkAt(landmarks, 23), rightHip |-> LandmarkAt(landmarks, 24),
     leftKnee |-> LandmarkAt(landmarks, 25), rightKnee |-> LandmarkAt(landmarks, 26),
     leftAnkle |-> LandmarkAt(landmarks, 27), rightAnkle |-> LandmarkAt(landmarks, 28)]

\* lines 190-195
requiredLandmarks(j) ==
    <<j.leftShoulder, j.rightShoulder, j.leftHip, j.rightHip,
      j.leftKnee, j.rightKnee, j.leftAnkle, j.rightAnkle>>

\* line 198, in hundredths
visibilityThreshold == 50

\* Variant: a visibility equal to the threshold counts as visible.
allVisible_AtThreshold(j) ==
    \A i \in 1..Len(requiredLandmarks(j)) :
        LET landmark == requiredLandmarks(j)[i]
        IN  /\ landmark.defined
            /\ landmark.visibility # NoVisibility
            /\ landmark.visibility >= visibilityThreshold

\* lines 199-201
allVisible(j) ==
    \A i \in 1..Len(requiredLandmarks(j)) :
        LET landmark == requiredLandmarks(j)[i]
        IN  /\ landmark.defined
            /\ landmark.visibility # NoVisibility
            /\ landmark.visibility > visibilityThreshold

\* lines 212-215
bodyHeight(j) ==
    Abs(Max(j.leftShoulder.y, j.rightShoulder.y) - Max(j.leftAnkle.y, j.rightAnkle.y))

\* A point scaled by two, and the sum of two points (twice their midpoint):
\* angles between points do not change when all of them are scaled by two.
Twice(p) == [p EXCEPT !.x = 2 * p.x, !.y = 2 * p.y]
TwiceMid(p, q) == [p EXCEPT !.x = p.x + q.x, !.y = p.y + q.y]

\* lines 226-245
Measures(j) ==
    [leftArmAngle |-> calculateAngle(j.leftShoulder, j.leftElbow, j.leftWrist),
     rightArmAngle |-> calculateAngle(j.rightShoulder, j.rightElbow, j.rightWrist),
     leftLegAngle |-> calculateAngle(j.leftHip, j.leftKnee, j.leftAnkle),
     rightLegAngle |-> calculateAngle(j.rightHip, j.rightKnee, j.rightAnkle),
     leftShoulderAngle |-> calculateAngle(j.leftElbow, j.leftShoulder, j.leftHip),
     rightShoulderAngle |-> calculateAngle(j.rightElbow, j.rightShoulder, j.rightHip),
     leftHipAngle |-> calculateAngle(j.leftShoulder, j.leftHip, j.leftKnee),
     rightHipAngle |-> calculateAngle(j.rightShoulder, j.rightHip, j.rightKnee),
     shoulderAlignment |-> calculateAlignment(Twice(j.leftShoulder),
                                              TwiceMid(j.leftShoulder, j.rightShoulder),
                                              Twice(j.rightShoulder)),
     hipWidthSquared |-> calculateDistanceSquared(j.leftHip, j.rightHip),
     shoulderWidthSquared |-> calculateDistanceSquared(j.leftShoulder, j.rightShoulder),
     bodyAlignment |-> calculateAlignment(j.leftShoulder, j.leftHip, j.leftAnkle),
     torsoAngle |-> Atan2((j.leftHip.y + j.rightHip.y) - (j.leftShoulder.y + j.rightShoulder.y),
                          (j.leftHip.x + j.rightHip.x) - (j.leftShoulder.x + j.rightShoulder.x))]

\* One of the eight angles of lines 226-233 read an undefined entry.
AnglesThrow(m) ==
    TypeError \in {m.leftArmAngle, m.rightArmAngle, m.leftLegAngle, m.rightLegAngle,
                   m.leftShoulderAngle, m.rightShoulderAngle, m.leftHipAngle, m.rightHipAngle}

\* lines 285, 301, 318
eitherSideVertical(j) ==
    \/ isBodyVertical(j.leftShoulder, j.leftHip, j.leftAnkle)
    \/ isBodyVertical(j.rightShoulder, j.rightHip, j.rightAnkle)

\* lines 250-256
plankCriteria(j, m) ==
    <<m.leftArmAngle > Deg(160) /\ m.rightArmAngle > Deg(160),
      m.leftLegAngle > Deg(160) /\ m.rightLegAngle > Deg(160),
      m.bodyAlignment > Deg(126),
      Abs(j.leftShoulder.y - j.leftHip.y) < 15,
      m.leftShoulderAngle > Deg(70) /\ m.leftShoulderAngle < Deg(110)>>

\* lines 266-272
downwardDogCriteria(j, m) ==
    <<m.leftArmAngle > Deg(150) /\ m.rightArmAngle > Deg(150),
      m.leftLegAngle > Deg(140) /\ m.rightLegAngle > Deg(140),
      j.leftHip.y < j.leftShoulder.y - 10,
      m.leftHipAngle > Deg(100) /\ m.leftHipAngle < Deg(140),
      Abs(m.torsoAngle) > Deg(30) /\ Abs(m.torsoAngle) < Deg(70)>>

\* lines 282-288; hipWidth > shoulderWidth * 1.3 compared on the squares
warrior2Criteria(j, m) ==
    <<m.leftArmAngle > Deg(160) \/ m.rightArmAngle > Deg(160),
      Abs(m.leftLegAngle - m.rightLegAngle) > Deg(40),
      eitherSideVertical(j),
      Abs(j.leftShoulder.y - j.rightShoulder.y) < 8,
      m.hipWidthSquared * 100 > m.shoulderWidthSquared * 169>>

\* lines 298-303; hipWidth > shoulderWidth * 1.2 compared on the squares
warrior1Criteria(j, m) ==
    <<j.leftWrist.y < j.leftShoulder.y - 15 \/ j.rightWrist.y < j.rightShoulder.y - 15,
      Abs(m.leftLegAngle - m.rightLegAngle) > Deg(40),
      eitherSideVertical(j),
      m.hipWidthSquared * 100 > m.shoulderWidthSquared * 144>>

\* lines 313-319
treeCriteria(j, m) ==
    <<Abs(m.leftLegAngle - m.rightLegAngle) > Deg(70),
      m.leftLegAngle > Deg(160) \/ m.rightLegAngle > Deg(160),
      m.leftLegAngle < Deg(100) \/ m.rightLegAngle < Deg(100),
      Abs(j.leftShoulder.x - j.rightShoulder.x) < 10,
      eitherSideVertical(j)>>

\* Variant: the fifth criterion reads the alignment of shoulder, hip and ankle.
mountainCriteria_BodyAlignment(j, m) ==
    <<m.leftLegAngle > Deg(160) /\ m.rightLegAngle > Deg(160),
      Abs(j.leftHip.y - j.rightHip.y) < 5,
      isBodyVertical(j.leftShoulder, j.leftHip, j.leftAnkle),
      Abs(j.leftShoulder.x - j.rightShoulder.x) < 10,
      m.bodyAlignment > Deg(144)>>

\* lines 329-335; 0.8 is Deg(144)
mountainCriteria(j, m) ==
    <<m.leftLegAngle > Deg(160) /\ m.rightLegAngle > Deg(160),
      Abs(j.leftHip.y - j.rightHip.y) < 5,
      isBodyVertical(j.leftShoulder, j.leftHip, j.leftAnkle),
      Abs(j.leftShoulder.x - j.rightShoulder.x) < 10,
      m.shoulderAlignment > Deg(144)>>

\* lines 345-351; reads nose.y
childCriteria(j, m) ==
    <<m.leftLegAngle < Deg(90) /\ m.rightLegAngle < Deg(90),
      j.leftHip.y > j.leftShoulder.y + 10,
      j.nose.y > j.leftHip.y - 5,
      m.leftShoulderAngle < Deg(100) /\ m.rightShoulderAngle < Deg(100),
      Abs(j.leftKnee.y - j.rightKnee.y) < 10>>

\* lines 361-367
cobraCriteria(j, m) ==
    <</\ m.leftArmAngle > Deg(100) /\ m.leftArmAngle < Deg(170)
      /\ m.rightArmAngle > Deg(100) /\ m.rightArmAngle < Deg(170),
      j.leftShoulder.y < j.leftHip.y - 10,
      m.leftLegAngle > Deg(150) /\ m.rightLegAngle > Deg(150),
      m.leftShoulderAngle > Deg(120) /\ m.rightShoulderAngle > Deg(120),
      Abs(m.torsoAngle + Deg(90)) < Deg(40)>>

\* Variant: only the first of the two checked criteria decides the feedback.
Rule_FirstOnly(pose, criteria, weights, first, firstText, second, secondText, otherwise) ==
    LET c == calculatePoseConfidence(criteria, weights)
    IN  Classification(pose, c.num, c.den,
                       IF ~criteria[first] THEN firstText ELSE otherwise)

\* The result of one rule: the pose with the weighted confidence and the
\* feedback of the first of the two checked criteria that is not met.
Rule(pose, criteria, weights, first, firstText, second, secondText, otherwise) ==
    LET c == calculatePoseConfidence(criteria, weights)
    IN  Classification(pose, c.num, c.den,
                       IF ~criteria[first] THEN firstText
                       ELSE IF ~criteria[second] THEN secondText
                       ELSE otherwise)

\* Variant: the Cobra rule asks for four of its five criteria.
classifyLaterRules_CobraFour(j, m) ==
    IF MetCount(warrior2Criteria(j, m)) >= 4
    THEN Rule(WARRIOR_II, warrior2Criteria(j, m), <<10, 15, 12, 8, 10>>,
              3, "Keep your torso upright and centered",
              2, "Bend your front knee more, keep back leg straight",
              "Perfect! Arms parallel to ground, front knee over ankle")
    ELSE IF MetCount(warrior1Criteria(j, m)) >= 3
    THEN Rule(WARRIOR_I, warrior1Criteria(j, m), <<12, 15, 12, 10>>,
              1, "Raise your arms higher overhead",
              3, "Keep your chest lifted and facing forward",
              "Great! Reach up through your fingertips, ground through back foot")
    ELSE IF MetCount(treeCriteria(j, m)) >= 4
    THEN Rule(TREE, treeCriteria(j, m), <<15, 10, 10, 10, 12>>,
              5, "Find your center and stand tall",
              3, "Bring your foot higher on your thigh",
              "Wonderful balance! Focus on a fixed point to maintain stability")
    ELSE IF MetCount(mountainCriteria(j, m)) >= 4
    THEN Rule(MOUNTAIN, mountainCriteria(j, m), <<10, 10, 15, 10, 10>>,
              3, "Stand taller with weight evenly distributed",
              2, "Level your hips and engage your core",
              "Perfect alignment! Breathe deeply and maintain this foundation")
    ELSE IF ~j.nose.defined THEN Thrown
    ELSE IF MetCount(childCriteria(j, m)) >= 4
    THEN Rule(CHILD, childCriteria(j, m), <<10, 10, 12, 8, 8>>,
              3, "Lower your forehead closer to the ground",
              1, "Sit back deeper on your heels",
              "Relax completely. Let your forehead rest and breathe deeply")
    ELSE IF MetCount(cobraCriteria(j, m)) >= 4
    THEN Rule(COBRA, cobraCriteria(j, m), <<12, 15, 10, 10, 12>>,
              2, "Lift your chest higher, press through your palms",
              4, "Draw shoulders back and down, away from ears",
              "Beautiful! Keep legs engaged and gaze forward and up")
    ELSE Classification("Unknown Pose", 50, 100,
                        "Position yourself clearly or try a pose from the library")

\* lines 281-380: the rules after Downward Dog, in the order of the code
classifyLaterRules(j, m) ==
    IF MetCount(warrior2Criteria(j, m)) >= 4
    THEN Rule(WARRIOR_II, warrior2Criteria(j, m), <<10, 15, 12, 8, 10>>,
              3, "Keep your torso upright and centered",
              2, "Bend your front knee more, keep back leg straight",
              "Perfect! Arms parallel to ground, front knee over ankle")
    ELSE IF MetCount(warrior1Criteria(j, m)) >= 3
    THEN Rule(WARRIOR_I, warrior1Criteria(j, m), <<12, 15, 12, 10>>,
              1, "Raise your arms higher overhead",
              3, "Keep your chest lifted and facing forward",
              "Great! Reach up through your fingertips, ground through back foot")
    ELSE IF MetCount(treeCriteria(j, m)) >= 4
    THEN Rule(TREE, treeCriteria(j, m), <<15, 10, 10, 10, 12>>,
              5, "Find your center and stand tall",
              3, "Bring your foot higher on your thigh",
              "Wonderful balance! Focus on a fixed point to maintain stability")
    ELSE IF MetCount(mountainCriteria(j, m)) >= 4
    THEN Rule(MOUNTAIN, mountainCriteria(j, m), <<10, 10, 15, 10, 10>>,
              3, "Stand taller with weight evenly distributed",
              2, "Level your hips and engage your core",
              "Perfect alignment! Breathe deeply and maintain this foundation")
    ELSE IF ~j.nose.defined THEN Thrown
    ELSE IF MetCount(childCriteria(j, m)) >= 4
    THEN Rule(CHILD, childCriteria(j, m), <<10, 10, 12, 8, 8>>,
              3, "Lower your forehead closer to the ground",
              1, "Sit back deeper on your heels",
              "Relax completely. Let your forehead rest and breathe deeply")
    ELSE IF MetCount(cobraCriteria(j, m)) >= 3
    THEN Rule(COBRA, cobraCriteria(j, m), <<12, 15, 10, 10, 12>>,
              2, "Lift your chest higher, press through your palms",
              4, "Draw shoulders back and down, away from ears",
              "Beautiful! Keep legs engaged and gaze forward and up")
    ELSE Classification("Unknown Pose", 50, 100,
                        "Position yourself clearly or try a pose from the library")

\* Variant: the Downward Dog rule checked before the Plank rule.
classifyRules_DogFirst(j, m) ==
    IF MetCount(downwardDogCriteria(j, m)) >= 4
    THEN Rule(DOWNWARD_DOG, downwardDogCriteria(j, m), <<10, 10, 15, 12, 10>>,
              3, "Lift your hips higher to form an inverted V",
              2, "Straighten your legs more",
              "Excellent! Press heels toward ground and relax your neck")
    ELSE IF MetCount(plankCriteria(j, m)) >= 4
    THEN Rule(PLANK, plankCriteria(j, m), <<10, 10, 15, 10, 8>>,
              3, "Keep your body in a straight line from head to heels",
              4, "Lower your hips to align with shoulders",
              "Great! Keep your core engaged and breathe steadily")
    ELSE classifyLaterRules(j, m)

\* lines 247-380: the pose rules in the order of the code, first match wins
classifyRules(j, m) ==
    IF MetCount(plankCriteria(j, m)) >= 4
    THEN Rule(PLANK, plankCriteria(j, m), <<10, 10, 15, 10, 8>>,
              3, "Keep your body in a straight line from head to heels",
              4, "Lower your hips to align with shoulders",
              "Great! Keep your core engaged and breathe steadily")
    ELSE IF MetCount(downwardDogCriteria(j, m)) >= 4
    THEN Rule(DOWNWARD_DOG, downwardDogCriteria(j, m), <<10, 10, 15, 12, 10>>,
              3, "Lift your hips higher to form an inverted V",
              2, "Straighten your legs more",
              "Excellent! Press heels toward ground and relax your neck")
    ELSE classifyLaterRules(j, m)

\* Variant: a list of 32 entries passes.
noLandmarks_OffByOne(landmarks) == landmarks.absent \/ landmarks.length < 32

\* line 166: !landmarks || landmarks.length < 33
noLandmarks(landmarks) == landmarks.absent \/ landmarks.length < 33

ShowFullBody ==
    Classification(SHOW_FULL_BODY, 0, 1,
                   "Please step back to show your full body from head to feet in the frame")

MoveBack ==
    Classification(MOVE_BACK, 0, 1,
                   "Step back from the camera to fit your entire body in the frame")

\* Variant: the body height checked before the visibility.
classifyLandmarks_HeightFirst(j, m) ==
    IF bodyHeight(j) < 40 THEN MoveBack
    ELSE IF ~allVisible(j) THEN ShowFullBody
    ELSE IF AnglesThrow(m) THEN Thrown
    ELSE classifyRules(j, m)

\* lines 197-381: the two validations, the angles, the rules
classifyLandmarks(j, m) ==
    IF ~allVisible(j) THEN ShowFullBody
    ELSE IF bodyHeight(j) < 40 THEN MoveBack
    ELSE IF AnglesThrow(m) THEN Thrown
    ELSE classifyRules(j, m)

\* Variant: without a landmarker the landmarks are not looked at.
classifyPose_NeedsLandmarker(poseResult) ==
    LET landmarks == poseResult.landmarks
        j == Joints(landmarks)
    IN  IF poseLandmarker = "null" \/ noLandmarks(landmarks)
        THEN Classification("Position Your Body", 0, 1, "Unable to detect pose landmarks")
        ELSE classifyLandmarks(j, Measures(j))

\* lines 163-381
classifyPose(poseResult) ==
    LET landmarks == poseResult.landmarks
        j == Joints(landmarks)
    IN  IF noLandmarks(landmarks)
        THEN Classification("Position Your Body", 0, 1, "Unable to detect pose landmarks")
        ELSE classifyLandmarks(j, Measures(j))

\* The legacy variant, lines 542-634: no visibility or body-height validation, a
\* fixed confidence per pose.
classifyPoseLegacy(poseResult) ==
    LET landmarks == poseResult.landmarks
        j == Joints(landmarks)
        leftArmAngle == calculateAngle(j.leftShoulder, j.leftElbow, j.leftWrist)
        rightArmAngle == calculateAngle(j.rightShoulder, j.rightElbow, j.rightWrist)
        leftLegAngle == calculateAngle(j.leftHip, j.leftKnee, j.leftAnkle)
        rightLegAngle == calculateAngle(j.rightHip, j.rightKnee, j.rightAnkle)
        hipAngle == Abs(j.leftHip.y - j.rightHip.y)
    IN  IF noLandmarks(landmarks)
        THEN Classification("Unknown", 0, 1, "Unable to detect pose landmarks")
        ELSE IF TypeError \in {leftArmAngle, rightArmAngle, leftLegAngle, rightLegAngle}
        THEN Thrown
        ELSE IF /\ leftArmAngle > Deg(160) /\ rightArmAngle > Deg(160)
                /\ leftLegAngle > Deg(160) /\ rightLegAngle > Deg(160)
        THEN Classification(PLANK, 85, 100,
                            "Keep your core engaged and body in a straight line")
        ELSE IF /\ leftArmAngle > Deg(150) /\ rightArmAngle > Deg(150)
                /\ leftLegAngle > Deg(140) /\ rightLegAngle > Deg(140)
                /\ j.leftHip.y < j.leftShoulder.y
        THEN Classification(DOWNWARD_DOG, 82, 100,
                            "Press your heels toward the ground and relax your neck")
        ELSE IF /\ leftArmAngle > Deg(160) \/ rightArmAngle > Deg(160)
                /\ Abs(leftLegAngle - rightLegAngle) > Deg(30)
        THEN Classification(WARRIOR_II, 80, 100,
                 "Keep your front knee over your ankle and arms parallel to the ground")
        ELSE IF Abs(leftLegAngle - rightLegAngle) > Deg(60)
        THEN Classification(TREE, 78, 100,
                            "Find your balance and press your foot into your thigh")
        ELSE IF leftLegAngle > Deg(160) /\ rightLegAngle > Deg(160) /\ hipAngle < 5
        THEN Classification(MOUNTAIN, 85, 100,
                            "Stand tall with your weight evenly distributed")
        ELSE IF leftLegAngle < Deg(90) /\ rightLegAngle < Deg(90)
                /\ j.leftHip.y > j.leftShoulder.y
        THEN Classification(CHILD, 80, 100,
                            "Rest your forehead on the ground and breathe deeply")
        ELSE Classification("Unknown Pose", 60, 100,
                            "Adjust your position or try a different pose from the library")

\* A full list of 33 landmarks, visibility 0.9 each, the used entries in the order
\* nose, shoulders, elbows, wrists, hips, knees, ankles (left before right).
Skeleton(p) ==
    [absent |-> FALSE, length |-> 33,
     at |-> [i \in UsedIndices |->
               CASE i = 0 -> Landmark(p[1][1], p[1][2], 90)
                 [] i = 11 -> Landmark(p[2][1], p[2][2], 90)
                 [] i = 12 -> Landmark(p[3][1], p[3][2], 90)
                 [] i = 13 -> Landmark(p[4][1], p[4][2], 90)
                 [] i = 14 -> Landmark(p[5][1], p[5][2], 90)
                 [] i = 15 -> Landmark(p[6][1], p[6][2], 90)
                 [] i = 16 -> Landmark(p[7][1], p[7][2], 90)
                 [] i = 23 -> Landmark(p[8][1], p[8][2], 90)
                 [] i = 24 -> Landmark(p[9][1], p[9][2], 90)
                 [] i = 25 -> Landmark(p[10][1], p[10][2], 90)
                 [] i = 26 -> Landmark(p[11][1], p[11][2], 90)
                 [] i = 27 -> Landmark(p[12][1], p[12][2], 90)
                 [] i = 28 -> Landmark(p[13][1], p[13][2], 90)]]

\* standing, arms at the sides, seen from the front
MountainSkeleton ==
    Skeleton(<<<<50, 10>>, <<54, 20>>, <<46, 20>>, <<57, 35>>, <<43, 35>>, <<57, 50>>, <<43, 50>>,
               <<54, 50>>, <<46, 50>>, <<54, 70>>, <<46, 70>>, <<54, 90>>, <<46, 90>>>>)

\* a plank seen from the side
PlankSkeleton ==
    Skeleton(<<<<15, 48>>, <<20, 50>>, <<20, 52>>, <<20, 65>>, <<20, 67>>, <<20, 80>>, <<20, 82>>,
               <<50, 55>>, <<50, 57>>, <<70, 75>>, <<70, 77>>, <<90, 95>>, <<90, 97>>>>)

\* a plank seen from the side, the straight arms slanted forward of the shoulders
PlankLeanSkeleton ==
    Skeleton(<<<<15, 48>>, <<20, 50>>, <<20, 52>>, <<11, 62>>, <<11, 64>>, <<2, 74>>, <<2, 76>>,
               <<50, 55>>, <<50, 57>>, <<70, 75>>, <<70, 77>>, <<90, 95>>, <<90, 97>>>>)

\* hips raised 0.12 above the shoulders: meets four Plank criteria and four Downward Dog criteria
PlankDogSkeleton ==
    Skeleton(<<<<15, 60>>, <<20, 55>>, <<20, 57>>, <<30, 65>>, <<30, 67>>, <<40, 75>>, <<40, 77>>,
               <<32, 43>>, <<32, 45>>, <<40, 69>>, <<40, 71>>, <<49, 96>>, <<49, 98>>>>)

\* an inverted V seen from the side
DownwardDogSkeleton ==
    Skeleton(<<<<28, 60>>, <<30, 50>>, <<30, 52>>, <<22, 62>>, <<22, 64>>, <<14, 74>>, <<14, 76>>,
               <<48, 24>>, <<48, 26>>, <<58, 58>>, <<58, 60>>, <<68, 92>>, <<68, 94>>>>)

\* arms level, left knee bent, wide stance
Warrior2Skeleton ==
    Skeleton(<<<<50, 15>>, <<54, 25>>, <<46, 25>>, <<67, 25>>, <<33, 25>>, <<80, 25>>, <<20, 25>>,
               <<56, 50>>, <<44, 50>>, <<72, 62>>, <<32, 67>>, <<72, 85>>, <<20, 84>>>>)

\* arms overhead with bent elbows, left knee bent, shoulders tilted
Warrior1Skeleton ==
    Skeleton(<<<<50, 18>>, <<54, 25>>, <<46, 34>>, <<60, 14>>, <<40, 23>>, <<54, 4>>, <<46, 13>>,
               <<56, 50>>, <<44, 50>>, <<72, 62>>, <<32, 67>>, <<72, 85>>, <<20, 84>>>>)

\* standing on the left leg, right foot at the thigh
TreeSkeleton ==
    Skeleton(<<<<50, 10>>, <<54, 20>>, <<46, 20>>, <<60, 35>>, <<40, 35>>, <<51, 30>>, <<49, 30>>,
               <<54, 50>>, <<46, 50>>, <<54, 70>>, <<34, 62>>, <<54, 90>>, <<45, 66>>>>)

\* kneeling and folded forward, seen from the side
ChildSkeleton ==
    Skeleton(<<<<25, 58>>, <<30, 40>>, <<30, 42>>, <<40, 52>>, <<40, 54>>, <<50, 64>>, <<50, 66>>,
               <<60, 60>>, <<60, 62>>, <<40, 80>>, <<40, 82>>, <<62, 84>>, <<62, 86>>>>)

\* chest lifted, legs straight along the floor
CobraSkeleton ==
    Skeleton(<<<<25, 35>>, <<30, 42>>, <<42, 42>>, <<32, 60>>, <<44, 60>>, <<28, 78>>, <<40, 78>>,
               <<55, 72>>, <<67, 72>>, <<72, 80>>, <<84, 80>>, <<88, 88>>, <<100, 88>>>>)

\* seated on a chair, seen from the side: no rule matches
SeatedSkeleton ==
    Skeleton(<<<<40, 18>>, <<40, 30>>, <<52, 30>>, <<45, 45>>, <<57, 45>>, <<55, 55>>, <<67, 55>>,
               <<42, 62>>, <<54, 62>>, <<65, 60>>, <<77, 60>>, <<68, 85>>, <<80, 85>>>>)

\* standing, spanning 0.3 of the frame height
TooCloseSkeleton ==
    Skeleton(<<<<50, 35>>, <<54, 40>>, <<46, 40>>, <<57, 47>>, <<43, 47>>, <<57, 55>>, <<43, 55>>,
               <<54, 55>>, <<46, 55>>, <<54, 63>>, <<46, 63>>, <<54, 70>>, <<46, 70>>>>)

Skeletons == {MountainSkeleton, PlankSkeleton, PlankLeanSkeleton, PlankDogSkeleton, DownwardDogSkeleton, Warrior2Skeleton, Warrior1Skeleton,
              TreeSkeleton, ChildSkeleton, CobraSkeleton, SeatedSkeleton, TooCloseSkeleton}

----------------------------------------------------------------------------
(* Applying the classifier to detector results *)

\* No classifyPose call has been made on the current input.
NotClassified == [thrown |-> FALSE, pose |-> "<none>", confidence |-> [num |-> 0, den |-> 1],
                  feedback |-> ""]

\* Where a landmark of the input is moved to
MovePositions == {<<23, 13>>, <<77, 33>>, <<37, 83>>, <<63, 97>>}
\* Visibility values at and below the threshold
LowVisibilities == {50, 30}
\* The entries whose visibility changes: the eight whose visibility is read
\* (lines 190-195) and the nose, whose visibility is not.
DimmedIndices == {0, 11, 12, 23, 24, 25, 26, 27, 28}
\* List lengths below 33
ShortLengths == {0, 12, 32}

Edited(landmarks) ==
    /\ edits < MaxEdits
    /\ detection' = [landmarks |-> landmarks]
    /\ edits' = edits + 1
    /\ classification' = NotClassified
    /\ legacyClassification' = NotClassified
    /\ reclassification' = NotClassified
    /\ UNCHANGED exceptClassify

EditableAt(i) ==
    /\ ~detection.landmarks.absent
    /\ i < detection.landmarks.length
    /\ detection.landmarks.at[i].defined

\* The detector reports landmark i at another place.
MoveLandmark(i, p) ==
    /\ EditableAt(i)
    /\ <<detection.landmarks.at[i].x, detection.landmarks.at[i].y>> # p
    /\ Edited([detection.landmarks EXCEPT !.at[i].x = p[1], !.at[i].y = p[2]])

\* The detector reports landmark i with a low visibility, or with none.
SetVisibility(i, v) ==
    /\ EditableAt(i)
    /\ Edited([detection.landmarks EXCEPT !.at[i].visibility = v])

\* Entry i of the list is undefined.
RemoveLandmark(i) ==
    /\ EditableAt(i)
    /\ Edited([detection.landmarks EXCEPT !.at[i] = Undefined])

\* The list has fewer than 33 entries.
ShortenList(n) ==
    /\ ~detection.landmarks.absent
    /\ n < detection.landmarks.length
    /\ Edited([detection.landmarks EXCEPT !.length = n])

\* The result carries no landmark list.
RemoveList ==
    /\ ~detection.landmarks.absent
    /\ Edited([detection.landmarks EXCEPT !.absent = TRUE])

\* classifyPose(detection) of both variants
Classify ==
    /\ classification = NotClassified
    /\ classification' = classifyPose(detection)
    /\ legacyClassification' = classifyPoseLegacy(detection)
    /\ UNCHANGED <<detection, edits, reclassification>>
    /\ UNCHANGED exceptClassify

\* classifyPose(detection) once more, on the same detector result
ClassifyAgain ==
    /\ classification # NotClassified
    /\ reclassification = NotClassified
    /\ reclassification' = classifyPose(detection)
    /\ UNCHANGED <<detection, classification, legacyClassification, edits>>
    /\ UNCHANGED exceptClassify

InitClassify ==
    /\ detection \in {[landmarks |-> s] : s \in Skeletons}
    /\ classification = NotClassified
    /\ legacyClassification = NotClassified
    /\ edits = 0
    /\ reclassification = NotClassified

\* The classifier at rest, for the specifications that do not exercise it.
IdleClassify ==
    /\ detection = [landmarks |-> [absent |-> TRUE, length |-> 0, at |-> <<>>]]
    /\ classification = NotClassified
    /\ legacyClassification = NotClassified
    /\ edits = 0
    /\ reclassification = NotClassified

NextClassify ==
    \/ \E i \in UsedIndices, p \in MovePositions : MoveLandmark(i, p)
    \/ \E i \in DimmedIndices, v \in LowVisibilities \cup {NoVisibility} : SetVisibility(i, v)
    \/ \E i \in UsedIndices : RemoveLandmark(i)
    \/ \E n \in ShortLengths : ShortenList(n)
    \/ RemoveList
    \/ Classify

----------------------------------------------------------------------------
(* The detector handle and the two views: unnamed/part_001 lines 26-123,      *)
(* CameraView.tsx, ImageUpload.tsx                                            *)

\* currentPose / result === null
NoPose == [thrown |-> FALSE, pose |-> "<null>", confidence |-> [num |-> 0, den |-> 1],
           feedback |-> ""]

\* detectPose / detectPoseFromImage resolved to null (part_001 lines 65, 79-82, 119-122)
NoPoseResult ==
    [found |-> FALSE,
     landmarks |-> [absent |-> TRUE, length |-> 0, at |-> [i \in UsedIndices |-> Undefined]]]

\* What the landmarker finds in a frame or an image: nobody, or one person.
SeenSkeletons == {MountainSkeleton, PlankSkeleton, TooCloseSkeleton}
Findings == {NoPoseResult} \cup {[found |-> TRUE, landmarks |-> s] : s \in SeenSkeletons}

\* detectForVideo / detect (part_001 lines 68-82, 113-122): a landmarker created
\* for the other running mode throws, which is caught and gives null.
DetectWith(mode, finding) == IF poseLandmarker' = mode THEN finding ELSE NoPoseResult

\* startCamera, CameraView.tsx lines 30-69, with initializePoseDetection
\* (part_001 lines 29-55); ok: the landmarker loads and the camera opens.
StartCamera(ok) ==
    /\ ~isActive
    /\ IF isInitialized /\ poseLandmarker # "null"
       THEN UNCHANGED <<poseLandmarker, isInitialized>>
       ELSE IF ok THEN poseLandmarker' = "VIDEO" /\ isInitialized' = TRUE
       ELSE UNCHANGED <<poseLandmarker, isInitialized>>
    /\ IF ok
       THEN /\ stream' = TRUE
            /\ isActive' = TRUE
            /\ frame' = (IF frame = "none" THEN "metadata" ELSE frame)
            /\ toast' = "Camera started"
       ELSE /\ toast' = "Camera error"
            /\ UNCHANGED <<stream, isActive, frame>>
    /\ UNCHANGED <<currentPose, image, result, visibilityWarning, cameraFound, imageFound>>
    /\ UNCHANGED exceptView

\* video.onloadedmetadata, lines 46-49: detectFrame runs up to its await (line 107)
OnLoadedMetadata ==
    /\ frame = "metadata"
    /\ frame' = "detecting"
    /\ UNCHANGED <<poseLandmarker, isInitialized, stream, isActive, currentPose, toast,
                   image, result, visibilityWarning, cameraFound, imageFound>>
    /\ UNCHANGED exceptView

\* The animation frame fires: detectFrame, lines 89-107, up to its await
DetectFrame ==
    /\ frame = "scheduled"
    /\ frame' = "detecting"
    /\ UNCHANGED <<poseLandmarker, isInitialized, stream, isActive, currentPose, toast,
                   image, result, visibilityWarning, cameraFound, imageFound>>
    /\ UNCHANGED exceptView

\* detectPose resolves (part_001 lines 57-83) and detectFrame goes on, lines 109-119
DetectFrameResume(finding) ==
    /\ frame = "detecting"
    /\ poseLandmarker # "null"
    /\ UNCHANGED <<poseLandmarker, isInitialized>>
    /\ LET poseResult == DetectWith("VIDEO", finding)
           found == poseResult.found
           classified == classifyPose(poseResult)
       IN  /\ cameraFound' = (IF found THEN "landmarks" ELSE "null")
           /\ currentPose' = (IF found /\ ~classified.thrown THEN classified ELSE currentPose)
           /\ frame' = (IF found /\ classified.thrown THEN "none" ELSE "scheduled")
    /\ UNCHANGED <<stream, isActive, toast, image, result, visibilityWarning, imageFound>>
    /\ UNCHANGED exceptView

\* stopCamera, lines 71-86: a frame that is waiting is cancelled, one that is in
\* its await is not
StopCamera ==
    /\ isActive
    /\ stream' = FALSE
    /\ isActive' = FALSE
    /\ currentPose' = NoPose
    /\ frame' = (IF frame = "scheduled" THEN "none" ELSE frame)
    /\ toast' = "Camera stopped"
    /\ cameraFound' = "none"
    /\ UNCHANGED <<poseLandmarker, isInitialized, image, result, visibilityWarning, imageFound>>
    /\ UNCHANGED exceptView

\* handleFileSelect, ImageUpload.tsx lines 19-38
HandleFileSelect(isImage) ==
    /\ IF isImage
       THEN image' = TRUE /\ result' = NoPose /\ imageFound' = "none" /\ UNCHANGED toast
       ELSE toast' = "Invalid file" /\ UNCHANGED <<image, result, imageFound>>
    /\ UNCHANGED <<poseLandmarker, isInitialized, stream, isActive, currentPose, frame,
                   visibilityWarning, cameraFound>>
    /\ UNCHANGED exceptView

\* analyzeImage, lines 40-109, with detectPoseFromImage (part_001 lines 85-123)
AnalyzeImage(finding) ==
    /\ image
    /\ poseLandmarker' = (IF poseLandmarker = "null" THEN "IMAGE" ELSE poseLandmarker)
    /\ LET poseResult == DetectWith("IMAGE", finding)
           classified == classifyPose(poseResult)
       IN  /\ imageFound' = (IF poseResult.found THEN "landmarks" ELSE "null")
           /\ IF ~poseResult.found
              THEN toast' = "No pose detected" /\ UNCHANGED <<result, visibilityWarning>>
              ELSE IF classified.thrown
              THEN toast' = "Analysis failed" /\ UNCHANGED <<result, visibilityWarning>>
              ELSE IF classified.pose = SHOW_FULL_BODY \/ classified.pose = MOVE_BACK
              THEN /\ visibilityWarning' = classified.feedback
                   /\ result' = NoPose
                   /\ toast' = "Full body not visible"
              ELSE /\ visibilityWarning' = NULL
                   /\ result' = classified
                   /\ toast' = "Analysis complete"
    /\ UNCHANGED <<isInitialized, stream, isActive, currentPose, frame, image, cameraFound>>
    /\ UNCHANGED exceptView

\* clearImage, lines 111-118
ClearImage ==
    /\ image
    /\ image' = FALSE
    /\ result' = NoPose
    /\ visibilityWarning' = NULL
    /\ imageFound' = "none"
    /\ UNCHANGED <<poseLandmarker, isInitialized, stream, isActive, currentPose, frame, toast,
                   cameraFound>>
    /\ UNCHANGED exceptView

InitView ==
    /\ poseLandmarker = "null"
    /\ isInitialized = FALSE
    /\ stream = FALSE
    /\ isActive = FALSE
    /\ currentPose = NoPose
    /\ frame = "none"
    /\ image = FALSE
    /\ result = NoPose
    /\ visibilityWarning = NULL
    /\ toast = ""
    /\ cameraFound = "none"
    /\ imageFound = "none"

NextView ==
    \/ \E ok \in BOOLEAN : StartCamera(ok)
    \/ OnLoadedMetadata
    \/ DetectFrame
    \/ \E finding \in Findings : DetectFrameResume(finding)
    \/ StopCamera
    \/ \E isImage \in BOOLEAN : HandleFileSelect(isImage)
    \/ \E finding \in Findings : AnalyzeImage(finding)
    \/ ClearImage

\* classifyPose called twice on one detector result while the views create the
\* landmarker and classify what it finds.
NextRepeat ==
    \/ Classify
    \/ ClassifyAgain
    \/ NextView

----------------------------------------------------------------------------
(* Specifications *)

\* The announcement controller at rest, for the specifications that do not
\* exercise it.
IdleSpeech == InitSpeech /\ speechSupported = TRUE

InitSpeechOnly == InitSpeech /\ IdleClassify /\ InitView
InitClassifyOnly == IdleSpeech /\ InitClassify /\ InitView
InitViewOnly == IdleSpeech /\ IdleClassify /\ InitView

\* The announcement controller under speakPose calls, the clock and reset().
SpecSpeech == InitSpeechOnly /\ [][NextSpeech]_vars

\* The announcement controller under calls with pose labels.
SpecPoses == InitSpeechOnly /\ [][NextPoses]_vars

\* The announcement controller under calls with warning labels and one pose.
SpecWarnings == InitSpeechOnly /\ [][NextWarnings]_vars

\* The announcement controller under calls with a variety of texts.
SpecText == InitSpeechOnly /\ [][NextText]_vars

\* The announcement controller next to a twin created at each reset().
SpecTwin == InitSpeechOnly /\ [][NextTwin]_vars

\* The announcement controller under calls, muting and reset(), the clock at rest.
SpecQueue == InitSpeechOnly /\ [][NextQueue]_vars

\* The announcement controller with all its operations and the speech engine.
SpecSession == InitSpeechOnly /\ [][NextSession]_vars

\* The classifier applied to detector results.
SpecClassify == InitClassifyOnly /\ [][NextClassify]_vars

\* The camera view and the image view with the detector they share.
SpecView == InitViewOnly /\ [][NextView]_vars

\* The classifier called twice on one detector result, next to the views.
SpecRepeat == InitClassifyOnly /\ [][NextRepeat]_vars

----------------------------------------------------------------------------
(* Properties of the announcement controller *)

SpokenPaths == {"warningSpoken", "sameUpdate", "newSpoken"}
QuietPaths == {"warningRepeat", "warningCooldown", "accumulating", "sameQuiet",
               "newCooldown", "newUnstable"}

\* C1: between two speakPose calls that each issue an utterance, with no reset()
\* in between, at least ANNOUNCEMENT_COOLDOWN (3500) milliseconds pass, whichever
\* branch issued them; a call that comes sooner after an utterance issues none.
C1_GlobalCooldown ==
    /\ utterGap = -1 \/ utterGap >= ANNOUNCEMENT_COOLDOWN
    /\ (lastPath \in SpokenPaths \cup QuietPaths /\ utterTime # -1
            /\ announcementCooldown = utterTime /\ clock - utterTime < ANNOUNCEMENT_COOLDOWN)
       => (lastPath \in QuietPaths \/ utterTime = clock)

\* A second utterance exactly ANNOUNCEMENT_COOLDOWN after the one before it.
C1_Witness == lastPath = "newSpoken" /\ utterGap = ANNOUNCEMENT_COOLDOWN

\* count / len >= 65%, counted without the code's helpers
HasMajority(history) ==
    \E p \in Labels :
        Cardinality({i \in DOMAIN history : history[i] = p}) * 100 >= 65 * Len(history)

\* C2: on the normal path no utterance is issued while the queue holds fewer than
\* 8 entries or no label has a 65% share; from a fresh controller with speech
\* available, up to 7 calls with one pose label issue no utterance and the 8th
\* issues exactly one.
C2_StableBeforeSpoken ==
    /\ lastPath \in {"sameUpdate", "newSpoken"}
         => Len(recentPoses) >= 8 /\ HasMajority(recentPoses)
    /\ (streakLabel \in PoseLabels /\ speechSupported /\ isEnabled)
         => /\ streakCalls < 8 => streakUtter = 0
            /\ streakCalls = 8 => streakUtter = 1

\* The 8th call of a fresh controller with one label, announcing it.
C2_Witness ==
    /\ streakLabel = TREE /\ streakCalls = 8 /\ streakUtter = 1
    /\ lastPath = "newSpoken" /\ synthText = "Tree Pose. Find your balance"

CallPaths == SpokenPaths \cup QuietPaths

\* C3: a speakPose call with a warning label that gets past the enabled check
\* leaves the history queue empty and the stable pose cleared, spoken or not, and
\* after it no new stable pose is announced before 8 further non-warning calls.
C3_WarningClearsHistory ==
    /\ (lastPath \in CallPaths /\ prevLabel \in WarningLabels)
         => recentPoses = <<>> /\ currentStablePose = ""
    /\ (lastPath = "newSpoken" /\ sinceWarning # -1) => sinceWarning >= 8

\* The 8th non-warning call after a warning that was not spoken, announcing a pose.
C3_Witness ==
    /\ lastPath = "newSpoken" /\ sinceWarning = 8
    /\ lastAnnouncedPose \in PoseLabels /\ labelChanges = 2

\* C4: after stop() the engine holds no utterance and the controller state is
\* cleared: history queue, stable pose, last announced pose and feedback, and
\* the timestamps.
C4_StopClearsSession ==
    lastPath = "stop" =>
        /\ synth = "idle"
        /\ recentPoses = <<>>
        /\ currentStablePose = ""
        /\ lastAnnouncedPose = ""
        /\ lastFeedback = ""
        /\ lastPoseChangeTime = 0
        /\ announcementCooldown = 0

----------------------------------------------------------------------------
(* Properties of the classifier *)

\* classifyPose has been applied to the current detector result.
Classified == classification # NotClassified

\* The list is there and has 33 entries or more.
FullList == ~detection.landmarks.absent /\ detection.landmarks.length >= 33

\* Both shoulders, hips, knees and ankles.
RequiredIndices == {11, 12, 23, 24, 25, 26, 27, 28}

\* Entry i is missing, has no visibility value, or a visibility of 0.5 or less.
NotShown(i) ==
    LET e == detection.landmarks.at[i]
    IN  ~e.defined \/ e.visibility = NoVisibility \/ e.visibility <= 50

\* |max(leftShoulder.y, rightShoulder.y) - max(leftAnkle.y, rightAnkle.y)|
Height ==
    LET at == detection.landmarks.at
        s == IF at[11].y > at[12].y THEN at[11].y ELSE at[12].y
        a == IF at[27].y > at[28].y THEN at[27].y ELSE at[28].y
    IN  IF s > a THEN s - a ELSE a - s

Returned(c, pose) == ~c.thrown /\ c.pose = pose

\* C5: for a list of at least 33 landmarks in which a required landmark is
\* missing, has no visibility value or has visibility <= 0.5, classifyPose
\* returns 'Show Full Body' with confidence 0, whatever the other landmarks are.
C5_ShowFullBody ==
    (Classified /\ FullList /\ \E i \in RequiredIndices : NotShown(i))
        => Returned(classification, SHOW_FULL_BODY) /\ classification.confidence.num = 0

\* A plank (the legacy variant, which has no visibility check, says Plank) with a
\* required landmark at visibility exactly 0.5.
C5_Witness ==
    /\ Returned(classification, SHOW_FULL_BODY)
    /\ Returned(legacyClassification, PLANK)
    /\ \E i \in RequiredIndices : detection.landmarks.at[i].visibility = 50

\* C6: for a landmark list that is absent or has fewer than 33 entries, both
\* variants of classifyPose return their no-landmarks fallback with confidence 0:
\* no named pose, no warning, not the unknown-pose fallback.
C6_NoLandmarks ==
    (Classified /\ ~FullList)
        => /\ Returned(classification, "Position Your Body")
           /\ Returned(legacyClassification, "Unknown")
           /\ classification.confidence.num = 0
           /\ legacyClassification.confidence.num = 0
           /\ {classification.pose, legacyClassification.pose}
                  \cap (YOGA_POSES \cup WarningLabels \cup {"Unknown Pose"}) = {}

\* A list of 32 entries, classified.
C6_Witness ==
    /\ Classified
    /\ ~detection.landmarks.absent
    /\ detection.landmarks.length = 32

\* C7: with 33 landmarks and all required landmarks visible, a body height below
\* 0.4 gives 'Move Back' with confidence 0; when a required landmark is not
\* visible as well, the result is 'Show Full Body', not 'Move Back'.
C7_MoveBack ==
    (Classified /\ FullList /\ Height < 40)
        => IF \E i \in RequiredIndices : NotShown(i)
           THEN Returned(classification, SHOW_FULL_BODY)
           ELSE Returned(classification, MOVE_BACK) /\ classification.confidence.num = 0

\* A body of height below 0.4 with a required landmark hidden.
C7_Witness ==
    /\ Classified /\ FullList /\ Height < 40
    /\ \E i \in RequiredIndices : NotShown(i)
    /\ \E i \in RequiredIndices : ~NotShown(i)
    /\ Returned(classification, SHOW_FULL_BODY)

\* The rules in the order of the spec, each with the number of criteria the
\* skeleton meets and the number it needs.
RuleTable ==
    LET j == Joints(detection.landmarks)
        m == Measures(j)
    IN  <<[pose |-> PLANK, met |-> MetCount(plankCriteria(j, m)), need |-> 4],
          [pose |-> DOWNWARD_DOG, met |-> MetCount(downwardDogCriteria(j, m)), need |-> 4],
          [pose |-> WARRIOR_II, met |-> MetCount(warrior2Criteria(j, m)), need |-> 4],
          [pose |-> WARRIOR_I, met |-> MetCount(warrior1Criteria(j, m)), need |-> 3],
          [pose |-> TREE, met |-> MetCount(treeCriteria(j, m)), need |-> 4],
          [pose |-> MOUNTAIN, met |-> MetCount(mountainCriteria(j, m)), need |-> 4],
          [pose |-> CHILD, met |-> MetCount(childCriteria(j, m)), need |-> 4],
          [pose |-> COBRA, met |-> MetCount(cobraCriteria(j, m)), need |-> 3]>>

\* The result came from the pose rules: not a fallback of the validations, no throw.
FromRules ==
    /\ Classified
    /\ ~classification.thrown
    /\ classification.pose \notin {"Position Your Body", SHOW_FULL_BODY, MOVE_BACK}

\* C8: the result is the first pose, in the order Plank, Downward Dog,
\* Warrior II, Warrior I, Tree, Mountain, Child's, Cobra, whose criteria-met count
\* reaches its threshold; a skeleton that reaches both the Plank and the Downward
\* Dog threshold is classified as Plank.
C8_FirstRuleWins ==
    FromRules =>
        LET t == RuleTable
            reached == {i \in 1..Len(t) : t[i].met >= t[i].need}
        IN  /\ reached = {} => classification.pose = "Unknown Pose"
            /\ \A i \in reached :
                   (\A k \in reached : i <= k) => classification.pose = t[i].pose
            /\ {1, 2} \subseteq reached => classification.pose = PLANK

\* A skeleton that reaches the threshold of Plank and of Downward Dog.
C8_Witness ==
    /\ FromRules
    /\ RuleTable[1].met >= 4
    /\ RuleTable[2].met >= 4
    /\ classification.pose = PLANK

\* C9: classifyPose returns a classification for every input: it never throws.
C9_NeverThrows == ~classification.thrown

\* The rules of a table whose criteria-met count reaches the minimum.
ReachedIn(t) == {i \in 1..Len(t) : t[i].met >= t[i].need}

\* C18: a named pose is returned only when the count of its criteria that hold
\* is at least its minimum (4 of 5 for Plank, Downward Dog, Warrior II, Tree,
\* Mountain, Child's; 3 of 4 for Warrior I; 3 of 5 for Cobra), some named pose is
\* returned whenever one of the eight reaches its minimum, and when none does the
\* result is 'Unknown Pose' with confidence exactly 0.5.
C18_Thresholds ==
    FromRules =>
        LET t == RuleTable
            reached == ReachedIn(t)
        IN  /\ \A i \in 1..Len(t) : classification.pose = t[i].pose => i \in reached
            /\ (\E i \in 1..Len(t) : classification.pose = t[i].pose) <=> reached # {}
            /\ reached = {} =>
                   /\ classification.pose = "Unknown Pose"
                   /\ 2 * classification.confidence.num = classification.confidence.den

\* The unknown-pose fallback for a skeleton that meets three of the five
\* criteria of a pose that needs four.
C18_Witness ==
    /\ FromRules
    /\ LET t == RuleTable
       IN  /\ ReachedIn(t) = {}
           /\ \E i \in 1..Len(t) : t[i].need = 4 /\ t[i].met = 3
    /\ classification.pose = "Unknown Pose"
    /\ classification.confidence = [num |-> 50, den |-> 100]

\* The criteria of a named pose for the classified skeleton.
CriteriaOf(pose) ==
    LET j == Joints(detection.landmarks)
        m == Measures(j)
    IN  CASE pose = PLANK -> plankCriteria(j, m)
          [] pose = DOWNWARD_DOG -> downwardDogCriteria(j, m)
          [] pose = WARRIOR_II -> warrior2Criteria(j, m)
          [] pose = WARRIOR_I -> warrior1Criteria(j, m)
          [] pose = TREE -> treeCriteria(j, m)
          [] pose = MOUNTAIN -> mountainCriteria(j, m)
          [] pose = CHILD -> childCriteria(j, m)
          [] pose = COBRA -> cobraCriteria(j, m)

\* The corrective messages of a named pose in the order its rule tries them,
\* each with the criterion it addresses.
CorrectiveOf(pose) ==
    CASE pose = PLANK ->
           <<<<3, "Keep your body in a straight line from head to heels">>,
             <<4, "Lower your hips to align with shoulders">>>>
      [] pose = DOWNWARD_DOG ->
           <<<<3, "Lift your hips higher to form an inverted V">>,
             <<2, "Straighten your legs more">>>>
      [] pose = WARRIOR_II ->
           <<<<3, "Keep your torso upright and centered">>,
             <<2, "Bend your front knee more, keep back leg straight">>>>
      [] pose = WARRIOR_I ->
           <<<<1, "Raise your arms higher overhead">>,
             <<3, "Keep your chest lifted and facing forward">>>>
      [] pose = TREE ->
           <<<<5, "Find your center and stand tall">>,
             <<3, "Bring your foot higher on your thigh">>>>
      [] pose = MOUNTAIN ->
           <<<<3, "Stand taller with weight evenly distributed">>,
             <<2, "Level your hips and engage your core">>>>
      [] pose = CHILD ->
           <<<<3, "Lower your forehead closer to the ground">>,
             <<1, "Sit back deeper on your heels">>>>
      [] pose = COBRA ->
           <<<<2, "Lift your chest higher, press through your palms">>,
             <<4, "Draw shoulders back and down, away from ears">>>>

\* The positive-reinforcement message of a named pose.
PositiveOf(pose) ==
    CASE pose = PLANK -> "Great! Keep your core engaged and breathe steadily"
      [] pose = DOWNWARD_DOG -> "Excellent! Press heels toward ground and relax your neck"
      [] pose = WARRIOR_II -> "Perfect! Arms parallel to ground, front knee over ankle"
      [] pose = WARRIOR_I -> "Great! Reach up through your fingertips, ground through back foot"
      [] pose = TREE -> "Wonderful balance! Focus on a fixed point to maintain stability"
      [] pose = MOUNTAIN -> "Perfect alignment! Breathe deeply and maintain this foundation"
      [] pose = CHILD -> "Relax completely. Let your forehead rest and breathe deeply"
      [] pose = COBRA -> "Beautiful! Keep legs engaged and gaze forward and up"

\* A named pose was returned.
NamedReturned == FromRules /\ classification.pose # "Unknown Pose"

\* C19 as stated: a named pose returned with one of its criteria unmet carries a
\* corrective message that addresses an unmet criterion; the positive message
\* comes only with all criteria met.
C19_CorrectiveWhenUnmet ==
    NamedReturned =>
        LET c == CriteriaOf(classification.pose)
            a == CorrectiveOf(classification.pose)
        IN  (\E k \in 1..Len(c) : ~c[k]) =>
                \E i \in 1..Len(a) : classification.feedback = a[i][2] /\ ~c[a[i][1]]

\* C19, amended: a named pose carries the corrective message of the first unmet
\* criterion among the two its rule inspects, which is then an unmet criterion
\* of the pose; it carries the positive message exactly when both inspected
\* criteria are met, and so whenever all criteria are met.
C19_InspectedCriteria ==
    NamedReturned =>
        LET c == CriteriaOf(classification.pose)
            a == CorrectiveOf(classification.pose)
        IN  /\ classification.feedback = PositiveOf(classification.pose)
                  <=> \A i \in 1..Len(a) : c[a[i][1]]
            /\ \A i \in 1..Len(a) :
                   (~c[a[i][1]] /\ \A k \in 1..(i - 1) : c[a[k][1]])
                       => classification.feedback = a[i][2]
            /\ (\A k \in 1..Len(c) : c[k])
                   => classification.feedback = PositiveOf(classification.pose)

\* Plank returned with the positive message although its arms criterion is unmet.
C19_Witness ==
    /\ NamedReturned
    /\ classification.pose = PLANK
    /\ ~CriteriaOf(PLANK)[1]
    /\ classification.feedback = PositiveOf(PLANK)

\* C20: for every validated skeleton in which the first four Plank criteria hold
\* (arms straight, legs straight, body alignment above 0.7, shoulders and hips
\* level), classifyPose returns Plank with confidence above 0.8 and the positive
\* message, whether or not the shoulder-angle criterion holds.
C20_PlankFromFour ==
    LET c == CriteriaOf(PLANK)
    IN  (FromRules /\ \A k \in 1..4 : c[k]) =>
            /\ classification.pose = PLANK
            /\ 10 * classification.confidence.num > 8 * classification.confidence.den
            /\ classification.feedback = "Great! Keep your core engaged and breathe steadily"

\* A plank whose shoulder angle is outside 70..110 degrees.
C20_Witness ==
    /\ FromRules
    /\ LET c == CriteriaOf(PLANK) IN (\A k \in 1..4 : c[k]) /\ ~c[5]
    /\ classification.pose = PLANK
    /\ classification.confidence = [num |-> 45, den |-> 53]

\* The weights of a named pose's criteria, in tenths.
WeightsOf(pose) ==
    CASE pose = PLANK -> <<10, 10, 15, 10, 8>>
      [] pose = DOWNWARD_DOG -> <<10, 10, 15, 12, 10>>
      [] pose = WARRIOR_II -> <<10, 15, 12, 8, 10>>
      [] pose = WARRIOR_I -> <<12, 15, 12, 10>>
      [] pose = TREE -> <<15, 10, 10, 10, 12>>
      [] pose = MOUNTAIN -> <<10, 10, 15, 10, 10>>
      [] pose = CHILD -> <<10, 10, 12, 8, 8>>
      [] pose = COBRA -> <<12, 15, 10, 10, 12>>

\* The weight criterion k adds when it counts (no criterion k: nothing).
WeightAt(w, counts, k) == IF k <= Len(w) /\ counts[k] THEN w[k] ELSE 0

\* The sum of the weights of the criteria that count.
WeightSum(w, counts) ==
    WeightAt(w, counts, 1) + WeightAt(w, counts, 2) + WeightAt(w, counts, 3)
        + WeightAt(w, counts, 4) + WeightAt(w, counts, 5)

\* A confidence in [0, 1].
UnitFraction(q) == q.den > 0 /\ 0 <= q.num /\ q.num <= q.den

\* C21: the confidence of a returned named pose is the sum of the weights of
\* its met criteria over the sum of all its weights, and the confidence of every
\* result of either variant of classifyPose is in [0, 1].
C21_WeightedConfidence ==
    /\ NamedReturned =>
           LET c == CriteriaOf(classification.pose)
               w == WeightsOf(classification.pose)
           IN  classification.confidence.num * WeightSum(w, [k \in 1..5 |-> TRUE])
                   = WeightSum(w, c \o <<FALSE>>) * classification.confidence.den
    /\ (Classified /\ ~classification.thrown) => UnitFraction(classification.confidence)
    /\ (Classified /\ ~legacyClassification.thrown)
           => UnitFraction(legacyClassification.confidence)

\* Cobra returned with three of its five criteria met: confidence 3.7 / 5.9.
C21_Witness ==
    /\ NamedReturned
    /\ classification.pose = COBRA
    /\ MetCount(CriteriaOf(COBRA)) = 3
    /\ classification.confidence = [num |-> 37, den |-> 59]

----------------------------------------------------------------------------
(* Properties of the views *)

\* C10: when the detector returned null for the last frame or image, the
\* classification on display is the no-landmarks fallback of classifyPose.
C10_NullShowsFallback ==
    /\ cameraFound = "null" => currentPose.pose = "Position Your Body"
    /\ imageFound = "null" => result.pose = "Position Your Body"

\* C26: whatever the order in which the camera and the image view are used,
\* detectPose runs detectForVideo on a landmarker created in VIDEO running mode
\* and detectPoseFromImage runs detect on a landmarker created in IMAGE running
\* mode.
C26_RunningModeMatches ==
    /\ [][(\E finding \in Findings : DetectFrameResume(finding))
              => poseLandmarker' = "VIDEO"]_vars
    /\ [][(\E finding \in Findings : AnalyzeImage(finding))
              => poseLandmarker' = "IMAGE"]_vars

C28_SpeakingFlagFollowsUtterance ==
    /\ synth = "speaking" => isSpeaking
    /\ lastPath = "stop" => ~isSpeaking

----------------------------------------------------------------------------
(* Properties of the announcement controller, branch by branch *)

\* The engine was handed a new utterance with this text in the step.
Issued(text) == lastPath' \in SpokenPaths /\ synth' = "pending" /\ synthText' = text

\* The step handed the engine nothing.
NothingIssued == UNCHANGED <<synth, synthText, synthHeld, staleEvents>>

\* The step is the call speakPose(p, f).
Called(p, f) == prevLabel' = p /\ lastPath' \notin {"tick", "reset"} /\ SpeakPose(p, f)

\* An utterance was issued since construction or reset() less than d ms ago.
UtteredWithin(d) == utterTime # -1 /\ clock - utterTime < d

\* C11: with speech enabled and available, a speakPose call with a warning label
\* issues its feedback text unchanged, whatever the history queue holds, unless
\* (a) the label is the last announced label and fewer than 15000 ms have passed
\* since that announcement, or (b) fewer than 3500 ms have passed since the last
\* utterance of any kind; when it speaks it records the label as last announced
\* and sets the last-change and cooldown timestamps to the current time.
C11_WarningAnnounced ==
    [][\A p \in WarningLabels, f \in Feedbacks :
          (isEnabled /\ speechSupported /\ Called(p, f)) =>
              IF \/ p = lastAnnouncedPose /\ clock - lastPoseChangeTime < 15000
                 \/ UtteredWithin(3500)
              THEN /\ NothingIssued
                   /\ UNCHANGED <<lastAnnouncedPose, lastPoseChangeTime, announcementCooldown>>
              ELSE /\ Issued(f)
                   /\ lastAnnouncedPose' = p
                   /\ lastPoseChangeTime' = clock
                   /\ announcementCooldown' = clock]_vars

\* Two calls with one warning label and nothing else: the first is spoken at
\* once, the second exactly 15000 ms later.
C11_Witness ==
    /\ lastPath = "warningSpoken" /\ streakLabel = MOVE_BACK
    /\ streakCalls = 2 /\ streakUtter = 2 /\ utterGap = 15000
    /\ synthText \in Feedbacks /\ lastAnnouncedPose = MOVE_BACK

\* The label p holds at least 8 entries' worth of queue and a 65% share of it.
MajorityIn(history, p) ==
    /\ Len(history) >= 8
    /\ Cardinality({i \in DOMAIN history : history[i] = p}) * 100 >= 65 * Len(history)

\* C12: when the majority label of the queue (the call's label appended) is the
\* current stable label, speakPose issues an utterance exactly when at least
\* 10000 ms have passed since the last pose change, the feedback differs from the
\* last spoken feedback and at least 3500 ms have passed since the last
\* utterance; the utterance is the concise feedback without the pose name; in
\* every other case nothing is issued and only the history queue changes.
C12_SameStableUpdate ==
    [][\A p \in PoseLabels, f \in Feedbacks :
          (/\ isEnabled /\ speechSupported /\ currentStablePose # ""
           /\ Called(p, f) /\ MajorityIn(recentPoses', currentStablePose)) =>
              IF /\ clock - lastPoseChangeTime >= 10000
                 /\ f # lastFeedback
                 /\ ~UtteredWithin(3500)
              THEN Issued(getConciseFeedback(f))
              ELSE /\ NothingIssued
                   /\ UNCHANGED <<currentStablePose, lastAnnouncedPose, lastFeedback,
                                  lastPoseChangeTime, announcementCooldown>>]_vars

\* C13: when the majority label X of the queue differs from the stable label,
\* the stable label becomes X only in a call that announces X; a call that comes
\* less than 3500 ms after the last utterance issues nothing and leaves the
\* stable label, the last-change timestamp and the last-announced fields as they
\* were; a call at which X is still the majority and at least 3500 ms have passed
\* since the last utterance announces X.
C13_NewStableAnnounced ==
    [][(isEnabled /\ speechSupported) =>
          \A p \in PoseLabels :
              prevLabel' = p =>
                  /\ (currentStablePose' # currentStablePose /\ currentStablePose' # "") =>
                         \A f \in Feedbacks :
                             Called(p, f) =>
                                 /\ MajorityIn(recentPoses', currentStablePose')
                                 /\ Issued(Announcement(currentStablePose', f))
                  /\ \A X \in PoseLabels \ {currentStablePose} :
                         MajorityIn(recentPoses', X) =>
                             \A f \in Feedbacks :
                                 Called(p, f) =>
                                     IF UtteredWithin(3500)
                                     THEN /\ NothingIssued
                                          /\ UNCHANGED <<currentStablePose, lastPoseChangeTime,
                                                         lastAnnouncedPose, lastFeedback>>
                                     ELSE /\ Issued(Announcement(X, f))
                                          /\ currentStablePose' = X]_vars

\* Mountain is announced 3500 ms after the utterance before it, as the stable
\* label after Tree, by the call that brings it to 9 of 12 queue entries: the
\* call before found it the majority with 8 of 12 and the cooldown running.
C13_Witness ==
    /\ lastPath = "newSpoken" /\ utterGap = 3500
    /\ currentStablePose = MOUNTAIN /\ labelChanges = 1
    /\ Len(recentPoses) = 12
    /\ Cardinality({i \in DOMAIN recentPoses : recentPoses[i] = MOUNTAIN}) = 9

\* The gates of speakPose for the call (p, f), from the timestamps, the last
\* announced label and feedback and the queue with p appended: the warning gates
\* of lines 102-108, the same-pose gates of lines 136-138, the cooldown of line 148.
GatesPass(p, f) ==
    IF p \in WarningLabels
    THEN /\ ~(p = lastAnnouncedPose /\ clock - lastPoseChangeTime < 15000)
         /\ clock - announcementCooldown >= 3500
    ELSE \E X \in PoseLabels :
            /\ MajorityIn(recentPoses', X)
            /\ IF X = currentStablePose
               THEN /\ clock - lastPoseChangeTime > 10000
                    /\ f # lastFeedback
                    /\ clock - announcementCooldown > 3500
               ELSE clock - announcementCooldown >= 3500

\* C14: the speech engine never holds more than one utterance, pending or being
\* spoken, because each announcement cancels what the engine holds before it
\* hands over the new utterance; and an enabled speakPose call issues an
\* utterance exactly when its gates pass, whether or not isSpeaking is set and
\* whether or not an earlier utterance is still pending or being spoken.
C14_OneUtteranceNoGating ==
    /\ [](synthHeld <= 1)
    /\ [][\A p \in SessionLabels, f \in SessionFeedbacks :
             (isEnabled /\ speechSupported /\ Called(p, f)) =>
                 /\ GatesPass(p, f) <=> lastPath' \in SpokenPaths
                 /\ lastPath' \in SpokenPaths =>
                        /\ synth' = "pending" /\ synthHeld' = 1
                        /\ staleEvents' = (staleEvents \/ synth # "idle")
                        /\ isSpeaking' = isSpeaking]_vars

\* An utterance issued while the one before it is being spoken: the flag is set,
\* the engine holds the new utterance alone, the old one's end is still to come.
C14_Witness ==
    /\ lastPath \in SpokenPaths /\ isSpeaking
    /\ synth = "pending" /\ synthHeld = 1 /\ staleEvents

\* C15: reset() puts the history queue, the stable pose, the last announced
\* pose, the last feedback and the timestamps back to their values at
\* construction and leaves isEnabled and isSpeaking as they were; from then on
\* every speakPose call hands the engine exactly the text that a controller
\* constructed at the moment of the reset, with the same enabled flag and given
\* the same calls, hands it.
C15_ResetIsFresh ==
    /\ [][Reset => /\ recentPoses' = <<>> /\ currentStablePose' = ""
                   /\ lastAnnouncedPose' = "" /\ lastFeedback' = ""
                   /\ lastPoseChangeTime' = 0 /\ announcementCooldown' = 0
                   /\ isEnabled' = isEnabled /\ isSpeaking' = isSpeaking]_vars
    /\ [](twinSaid = lastSaid)

\* A warning spoken right after reset(): it cancels an utterance the engine still
\* held, so one was issued before the reset, and none since.
C15_Witness ==
    /\ lastPath = "warningSpoken" /\ utterGap = -1 /\ staleEvents
    /\ lastSaid # NULL /\ twinSaid = lastSaid

\* C16: while speech is disabled or the platform has no speech synthesis, a
\* speakPose call issues no utterance and leaves the state and every ref of the
\* controller as it was: the label is not appended to the history queue and a
\* warning label clears neither the queue nor the stable pose.
C16_DisabledNoOp ==
    [][\A p \in SessionLabels, f \in SessionFeedbacks :
          ((~isEnabled \/ ~speechSupported) /\ Called(p, f)) =>
              /\ UNCHANGED hookVars
              /\ NothingIssued
              /\ lastSaid' = NULL]_vars

\* A warning call while speech is muted, the queue and the stable pose in place.
C16_Witness ==
    /\ lastPath = "disabled" /\ ~isEnabled /\ prevLabel = SHOW_FULL_BODY
    /\ recentPoses # <<>> /\ currentStablePose = TREE

\* The spoken name of each label and the concise form of each feedback text,
\* written out.
SpokenNameOf ==
    [l \in {TREE, UNKNOWN_POSE} |->
        IF l = TREE THEN "Tree Pose" ELSE "Unknown Pose"]
ConciseOf ==
    [f \in TextFeedbacks |->
        IF f = "Find your balance. Breathe." THEN "Find your balance"
        ELSE IF f = "Wonderful balance! Focus on a fixed point to maintain stability"
        THEN "Wonderful balance"
        ELSE "Stand taller with weight evenly distributed"]

\* C17: the utterance for a new stable pose is the pose label up to its first
\* "(", trimmed, then ". ", then the feedback up to its first "." or "!",
\* trimmed: 'Tree Pose (Vrksasana)' with 'Find your balance. Breathe.' gives
\* 'Tree Pose. Find your balance'; the utterance for a warning is the feedback
\* text unchanged.
C17_AnnouncementText ==
    [][\A p \in TextLabels, f \in TextFeedbacks :
          (lastPath' \in SpokenPaths /\ Called(p, f)) =>
              /\ synth' = "pending"
              /\ p \in WarningLabels => synthText' = f
              /\ (p \notin WarningLabels /\ currentStablePose' # currentStablePose) =>
                     synthText' = SpokenNameOf[currentStablePose'] \o ". " \o ConciseOf[f]]_vars

\* Tree announced with a feedback text that has an exclamation mark.
C17_Witness ==
    /\ lastPath = "newSpoken" /\ currentStablePose = TREE
    /\ synthText = "Tree Pose. Wonderful balance"

\* C23: the history queue holds the most recent (at most 12) non-warning labels
\* that speakPose was given while speech was enabled and available since the last
\* warning label or reset(), in arrival order: every such call appends its label
\* and a full queue drops its oldest entry first, a warning call and reset() empty
\* the queue, nothing else changes it, and it never holds more than 12 entries
\* or a warning label.
C23_QueueIsRecentLabels ==
    /\ [](/\ Len(recentPoses) <= 12
          /\ \A i \in 1..Len(recentPoses) : recentPoses[i] \notin WarningLabels)
    /\ [][\A p \in QueueLabels, f \in SessionFeedbacks :
              Called(p, f) =>
                  recentPoses' =
                      IF ~isEnabled \/ ~speechSupported THEN recentPoses
                      ELSE IF p \in WarningLabels THEN <<>>
                      ELSE IF Len(recentPoses) = 12 THEN Tail(recentPoses) \o <<p>>
                      ELSE recentPoses \o <<p>>]_vars
    /\ [][Reset => recentPoses' = <<>>]_vars
    /\ [][recentPoses' # recentPoses =>
              \/ Reset
              \/ \E p \in QueueLabels, f \in SessionFeedbacks : SpeakPose(p, f)]_vars

\* A full queue whose oldest entries were evicted: Tree calls, then Mountain
\* calls, then Tree calls again, with Mountain now at the head.
C23_Witness ==
    /\ Len(recentPoses) = 12
    /\ recentPoses[1] = MOUNTAIN /\ recentPoses[12] = TREE
    /\ labelChanges = 2 /\ sinceWarning = -1

\* C24: a pose is not announced as a new stable pose less than 10000 ms
\* (SAME_POSE_COOLDOWN) after its previous announcement, whatever calls, warning
\* calls included, come in between.  The last announced label and the time of
\* its announcement are what the controller itself keeps in lastAnnouncedPose
\* and lastPoseChangeTime.
C24_NoEarlyRepeat ==
    [][\A p \in PoseLabels :
          (lastPath' = "newSpoken" /\ prevLabel' = p /\ currentStablePose' = p
              /\ lastAnnouncedPose = p /\ (\E f \in Feedbacks : SpeakPose(p, f)))
          => clock - lastPoseChangeTime >= SAME_POSE_COOLDOWN]_vars

\* C25: the call that announces a new stable pose X carries the label X, so the
\* feedback spoken after the name is feedback for X.
C25_AnnouncedLabelIsCallLabel ==
    lastPath = "newSpoken" => prevLabel = currentStablePose

====
